---- MODULE Spec2Model ----
(***************************************************************************)
(* Model of bkm10_lib: the DifferentialCrossSection composer (core.py),    *)
(* its configuration validator (validation.py) and the four BKMFormalism   *)
(* assemblers it combines into the cross section and the BSA, TSA and DSA, *)
(* the plot_* operations, and the backend selector with its math wrapper   *)
(* (backend.py), and the kinematic derivation of the BKMFormalism          *)
(* constructor (formalism.py).  Four specifications share the variables:   *)
(* Spec (one construction, then queries), SessionSpec (a configured        *)
(* instance used with the backend selector), ThreadSpec (two threads on    *)
(* the selector) and DerivationSpec (the steps of one BKMFormalism         *)
(* construction).                                                          *)
(*                                                                         *)
(* Numbers.  Floating-point values are modelled as exact rationals <<n,d>> *)
(* in lowest terms with d > 0; the results of a division by zero are the   *)
(* IEEE values numpy produces: <<1,0>> = +inf, <<-1,0>> = -inf, <<0,0>> =  *)
(* nan.  Rounding is not modelled.  The kinematic derivation uses decimal  *)
(* fixed-point numbers with eight places instead, tagged as Python float   *)
(* or numpy float64, with inf, nan and a raised exception as values.       *)
(* Angles.  phi is a multiple of pi/2, stored as the number of quarter     *)
(* turns 0..3, so that cos(n phi) and sin(n phi) are exact.                *)
(* Polarizations.  lepton helicity lambda is stored as the integer itself  *)
(* (-1, 0, +1); target polarization Lambda is stored doubled (-1, 0, +1    *)
(* stand for -0.5, 0.0, +0.5).                                             *)
(***************************************************************************)
EXTENDS Integers, Sequences, FiniteSets, TLC

\* ------------------------------------------------------------------------
\* Bounds of the model
\* ------------------------------------------------------------------------
\* longest phi array handed to a compute_* operation
MaxPhiLen == 2

\* ------------------------------------------------------------------------
\* Exact rational arithmetic standing for the float arithmetic of numpy
\* ------------------------------------------------------------------------
Abs(x) == IF x < 0 THEN -x ELSE x

Sign(x) == IF x < 0 THEN -1 ELSE IF x > 0 THEN 1 ELSE 0

RECURSIVE GCD(_, _)
GCD(a, b) == IF b = 0 THEN a ELSE GCD(b, a % b)

\* the float n/d; d = 0 gives the IEEE value of numpy's array division
Rat(n, d) ==
    IF d = 0 THEN <<Sign(n), 0>>
    ELSE LET g == GCD(Abs(n), Abs(d))
             s == Sign(d)
         IN  <<(s * n) \div g, (s * d) \div g>>

IsFinite(x) == x[2] # 0

FromInt(n) == <<n, 1>>

RatAdd(x, y) == Rat(x[1] * y[2] + y[1] * x[2], x[2] * y[2])

RatNeg(x) == <<-x[1], x[2]>>

RatSub(x, y) == RatAdd(x, RatNeg(y))

RatMul(x, y) == Rat(x[1] * y[1], x[2] * y[2])

\* numerator / denominator on numpy arrays of finite values: no exception is
\* raised, x/0 is +-inf and 0/0 is nan
RatDiv(x, y) == Rat(x[1] * y[2], x[2] * y[1])

\* the float literals of core.py
Half == Rat(1, 2)

Quarter == Rat(1, 4)

\* .389379 * 1000000.
UnitConversion == 389379

\* ------------------------------------------------------------------------
\* Angles: numpy cos / sin on the quarter-turn grid, and the Trento shift
\* ------------------------------------------------------------------------
PhiGrid == 0 .. 3

\* np.cos(n * phi)
Cos(n, q) ==
    LET m == (n * q) % 4
    IN  IF m = 0 THEN 1 ELSE IF m = 2 THEN -1 ELSE 0

\* np.sin(n * phi)
Sin(n, q) ==
    LET m == (n * q) % 4
    IN  IF m = 1 THEN 1 ELSE IF m = 3 THEN -1 ELSE 0

\* np.pi - phi
TrentoShift(q) == (2 - q) % 4

\* np.atleast_1d: a scalar becomes a one-element array
AtLeast1d(phi_values) == phi_values.v

\* the phi_values a caller may pass: a bare scalar, or an array of evenly
\* spaced samples as np.linspace makes them
PhiInputs ==
    {[scalar |-> TRUE, v |-> <<q>>] : q \in PhiGrid}
    \cup {[scalar |-> FALSE, v |-> [i \in 1 .. n |-> (q + i - 1) % 4]] :
            q \in PhiGrid, n \in 1 .. MaxPhiLen}

\* ------------------------------------------------------------------------
\* Python values: [cls |-> class name, f |-> tuple of integer fields]
\* ------------------------------------------------------------------------
None == [cls |-> "NoneType", f |-> <<>>]

PyBool(b) == [cls |-> "bool", f |-> <<IF b THEN 1 ELSE 0>>]

PyFloat(x) == [cls |-> "float", f |-> <<x>>]

\* bool(obj): None, False and 0.0 are falsy, a dataclass instance is truthy
Truthy(obj) ==
    IF obj.cls = "NoneType" THEN FALSE
    ELSE IF obj.cls \in {"bool", "float"} THEN obj.f[1] # 0
    ELSE TRUE

\* BKM10Inputs(Q^2, x_B, t, k)
BKM10Inputs(q2, xb, t, k) == [cls |-> "BKM10Inputs", f |-> <<q2, xb, t, k>>]

\* CFFInputs(H, H-tilde, E, E-tilde), real and imaginary part of each
CFFInputs(h, ht, e, et) ==
    [cls |-> "CFFInputs", f |-> <<h[1], h[2], ht[1], ht[2], e[1], e[2], et[1], et[2]>>]

squared_Q_momentum_transfer(inputs) == inputs.f[1]

x_Bjorken(inputs) == inputs.f[2]

squared_hadronic_momentum_transfer_t(inputs) == inputs.f[3]

lab_kinematics_k(inputs) == inputs.f[4]

\* ------------------------------------------------------------------------
\* The Coefficient Assembler, BKMFormalism, as core.py and the tests use it:
\* constructed with keyword arguments inputs, cff_values, lepton_polarization,
\* target_polarization, using_ww, bh_on, dvcs_on, interference_on, and asked
\* for compute_c0_coefficient .. compute_s3_coefficient and
\* compute_cross_section_prefactor.  formalism.py of the source tree is an
\* earlier draft (its constructor takes inputs, formalism_version, verbose and
\* it has no coefficient operation), so the assembler is modelled from the
\* specification: integer-valued coefficients that depend on the kinematics,
\* the CFFs, both polarizations, the three toggles and phi.
\* ------------------------------------------------------------------------
HarmonicOrder(h) ==
    IF h = "c0" THEN 0
    ELSE IF h \in {"c1", "s1"} THEN 1
    ELSE IF h \in {"c2", "s2"} THEN 2
    ELSE 3

IsSine(h) == h \in {"s1", "s2", "s3"}

\* BKMFormalism(inputs, cff_values, lepton_polarization, target_polarization,
\*              using_ww, bh_on, dvcs_on, interference_on)
BKMFormalism(inputs, cff_values, lepton_polarization, target_polarization, using_ww, bh_on, dvcs_on, interference_on) ==
    [inputs |-> inputs,
     cff_values |-> cff_values,
     lepton_polarization |-> lepton_polarization,
     target_polarization |-> target_polarization,
     using_ww |-> using_ww,
     bh_on |-> bh_on,
     dvcs_on |-> dvcs_on,
     interference_on |-> interference_on]

\* the value of an instance attribute that has not been assigned
NoFormalism == BKMFormalism(None, None, 0, 0, None, FALSE, FALSE, FALSE)

\* effective CFF H: the Wandzura-Wilczek combination of the skewness and the
\* twist-2 CFF when using_ww, zero otherwise; <<real, imaginary>>
compute_cff_effective(a) ==
    IF Truthy(a.using_ww)
    THEN <<x_Bjorken(a.inputs) * a.cff_values.f[1], x_Bjorken(a.inputs) * a.cff_values.f[2]>>
    ELSE <<0, 0>>

\* convert_degrees_to_radians(azimuthal_phi): a change of unit of the same
\* angle; the grid counts quarter turns, 90 degrees and pi/2 radians alike
convert_degrees_to_radians(azimuthal_phi) == azimuthal_phi % 4

\* _calculate_k_dot_delta, the phi dependence of k.Delta: the angle whose
\* cosine is taken, np.pi - convert_degrees_to_radians(azimuthal_phi)
k_dot_delta_angle(azimuthal_phi) == TrentoShift(convert_degrees_to_radians(azimuthal_phi))

\* the phi-dependent term 2 K cos(...) of k.Delta, in units of 2 K
k_dot_delta_phi_dependence(azimuthal_phi) == Cos(1, k_dot_delta_angle(azimuthal_phi))

\* the try block of _calculate_k_dot_delta raises: line 409 divides the
\* Python float t by the Python float Q^2, a ZeroDivisionError for Q^2 = 0
k_dot_delta_fails(a) == squared_Q_momentum_transfer(a.inputs) = 0

\* lines 400-435 of _calculate_k_dot_delta, the phi-dependent part of the
\* result: the except clause prints the exception and returns 0.
calculate_k_dot_delta(a, azimuthal_phi) ==
    IF k_dot_delta_fails(a) THEN 0 ELSE k_dot_delta_phi_dependence(azimuthal_phi)

\* |BH|^2 part of a harmonic: kinematics, polarization and the propagators
\* P1, P2, which depend on phi through k.Delta
bh_contribution(a, h, q) ==
    LET n == HarmonicOrder(h)
        pol == a.lepton_polarization * a.target_polarization
    IN  IF IsSine(h)
        THEN IF n = 1 THEN a.target_polarization * squared_hadronic_momentum_transfer_t(a.inputs) ELSE 0
        ELSE squared_Q_momentum_transfer(a.inputs) + n * x_Bjorken(a.inputs)
             + pol * (lab_kinematics_k(a.inputs) + calculate_k_dot_delta(a, q))

\* |DVCS|^2 part of a harmonic: bilinear in the CFFs (curly-C of F, F*)
dvcs_contribution(a, h, q) ==
    LET n == HarmonicOrder(h)
        c == a.cff_values.f
        eff == compute_cff_effective(a)
        pol == a.lepton_polarization * a.target_polarization
    IN  IF n = 0 THEN c[1] * c[1] + c[2] * c[2] + pol * (c[3] * c[1] + c[4] * c[2])
        ELSE IF n = 1 /\ ~IsSine(h) THEN c[1] * eff[1] + c[2] * eff[2] + pol * c[5]
        ELSE IF n = 1 THEN a.lepton_polarization * (c[2] * eff[1] - c[1] * eff[2] + c[6])
                           + a.target_polarization * c[8]
        ELSE IF n = 2 /\ ~IsSine(h) THEN eff[1] * eff[1] + eff[2] * eff[2]
        ELSE 0

\* interference part of a harmonic: linear in the CFFs, times the
\* propagators; helicity- and polarization-odd terms in the sines only
interference_contribution(a, h, q) ==
    LET n == HarmonicOrder(h)
        c == a.cff_values.f
        eff == compute_cff_effective(a)
        pol == a.lepton_polarization * a.target_polarization
    IN  IF IsSine(h)
        THEN a.lepton_polarization * (c[2] + eff[2]) * n + a.target_polarization * (c[4] + Sin(1, q))
        ELSE (c[1] + pol * c[3] + c[7]) * (n + 1) + eff[1] * Cos(1, q)

\* compute_c0_coefficient .. compute_s3_coefficient at one phi sample: the
\* sum of the three contributions, each gated by its toggle
compute_coefficient(a, h, q) ==
    (IF a.bh_on THEN bh_contribution(a, h, q) ELSE 0)
    + (IF a.dvcs_on THEN dvcs_contribution(a, h, q) ELSE 0)
    + (IF a.interference_on THEN interference_contribution(a, h, q) ELSE 0)

\* compute_cross_section_prefactor(): a function of the kinematics alone
compute_cross_section_prefactor(a) ==
    Rat(x_Bjorken(a.inputs),
        squared_Q_momentum_transfer(a.inputs) * lab_kinematics_k(a.inputs))

\* ------------------------------------------------------------------------
\* Configuration mappings and validate_configuration (validation.py)
\* ------------------------------------------------------------------------
\* a dict entry: present says whether the key is in the mapping
Entry(obj) == [present |-> TRUE, obj |-> obj]

Absent == [present |-> FALSE, obj |-> None]

\* the kinematics a caller supplies: the second has x_B = 0
KinematicsValues == {BKM10Inputs(2, 1, -1, 3), BKM10Inputs(1, 0, -2, 2)}

CFFValues ==
    {CFFInputs(<<-1, 2>>, <<2, 1>>, <<-1, 1>>, <<2, 5>>),
     CFFInputs(<<1, 0>>, <<0, 1>>, <<0, 0>>, <<1, 1>>)}

\* a mapping from the entries of its keys
Mapping(kin, cff, ww, extra) ==
    [kinematics |-> kin, cff_inputs |-> cff, using_ww |-> ww,
     target_polarization |-> extra, lepton_beam_polarization |-> extra]

\* the configuration mappings a caller may pass: complete ones, with and
\* without the keys the validator does not know, ones without using_ww, and
\* ones whose kinematics or cff_inputs is missing, None or of another type
Configurations ==
    {Mapping(Entry(kin), Entry(cff), ww, extra) :
        kin \in KinematicsValues, cff \in CFFValues,
        ww \in {Entry(PyBool(TRUE)), Entry(PyBool(FALSE))},
        extra \in {Absent, Entry(PyFloat(0)), Entry(PyFloat(1))}}
    \cup {Mapping(Entry(kin), Entry(cff), Absent, Absent) :
        kin \in KinematicsValues, cff \in CFFValues}
    \cup {Mapping(kin, cff, Entry(PyBool(TRUE)), Absent) :
        kin \in {Entry(BKM10Inputs(2, 1, -1, 3)), Absent, Entry(None), Entry(PyFloat(1))},
        cff \in {Entry(CFFInputs(<<1, 0>>, <<0, 1>>, <<0, 0>>, <<1, 1>>)),
                 Absent, Entry(None), Entry(PyFloat(1))}}

\* configuration = None
NoConfiguration == [is_none |-> TRUE, d |-> Mapping(Absent, Absent, Absent, Absent)]

ConstructorArguments ==
    {[is_none |-> FALSE, d |-> d] : d \in Configurations} \cup {NoConfiguration}

\* bh_setting, dvcs_setting, interference_setting, verbose
ConstructorSettings == BOOLEAN \X BOOLEAN \X BOOLEAN \X BOOLEAN

\* the outcome of a call: a returned value or a raised exception
Returned(value) == [raised |-> FALSE, exc |-> "", key |-> "", value |-> value]

Raised(exc, key) == [raised |-> TRUE, exc |-> exc, key |-> key, value |-> <<>>]

\* a plausible slip: the value of cff_inputs is examined before the value of
\* kinematics
validate_configuration_cff_inputs_first(configuration_dictionary) ==
    IF ~configuration_dictionary["kinematics"].present
    THEN [raised |-> TRUE, exc |-> "ValueError", key |-> "kinematics", value |-> configuration_dictionary]
    ELSE IF ~configuration_dictionary["cff_inputs"].present
    THEN [raised |-> TRUE, exc |-> "ValueError", key |-> "cff_inputs", value |-> configuration_dictionary]
    ELSE IF ~Truthy(configuration_dictionary["cff_inputs"].obj)
    THEN [raised |-> TRUE, exc |-> "ValueError", key |-> "cff_inputs", value |-> configuration_dictionary]
    ELSE IF configuration_dictionary["cff_inputs"].obj.cls # "CFFInputs"
    THEN [raised |-> TRUE, exc |-> "TypeError", key |-> "cff_inputs", value |-> configuration_dictionary]
    ELSE IF ~Truthy(configuration_dictionary["kinematics"].obj)
    THEN [raised |-> TRUE, exc |-> "ValueError", key |-> "kinematics", value |-> configuration_dictionary]
    ELSE IF configuration_dictionary["kinematics"].obj.cls # "BKM10Inputs"
    THEN [raised |-> TRUE, exc |-> "TypeError", key |-> "kinematics", value |-> configuration_dictionary]
    ELSE [raised |-> FALSE, exc |-> "", key |-> "", value |-> configuration_dictionary]

\* a plausible slip: the two polarization keys are still among the required
\* keys
validate_configuration_requiring_polarizations(configuration_dictionary) ==
    IF ~configuration_dictionary["kinematics"].present
    THEN [raised |-> TRUE, exc |-> "ValueError", key |-> "kinematics", value |-> configuration_dictionary]
    ELSE IF ~configuration_dictionary["cff_inputs"].present
    THEN [raised |-> TRUE, exc |-> "ValueError", key |-> "cff_inputs", value |-> configuration_dictionary]
    ELSE IF ~configuration_dictionary["target_polarization"].present
    THEN [raised |-> TRUE, exc |-> "ValueError", key |-> "target_polarization", value |-> configuration_dictionary]
    ELSE IF ~configuration_dictionary["lepton_beam_polarization"].present
    THEN [raised |-> TRUE, exc |-> "ValueError", key |-> "lepton_beam_polarization", value |-> configuration_dictionary]
    ELSE IF ~Truthy(configuration_dictionary["kinematics"].obj)
    THEN [raised |-> TRUE, exc |-> "ValueError", key |-> "kinematics", value |-> configuration_dictionary]
    ELSE IF configuration_dictionary["kinematics"].obj.cls # "BKM10Inputs"
    THEN [raised |-> TRUE, exc |-> "TypeError", key |-> "kinematics", value |-> configuration_dictionary]
    ELSE IF ~Truthy(configuration_dictionary["cff_inputs"].obj)
    THEN [raised |-> TRUE, exc |-> "ValueError", key |-> "cff_inputs", value |-> configuration_dictionary]
    ELSE IF configuration_dictionary["cff_inputs"].obj.cls # "CFFInputs"
    THEN [raised |-> TRUE, exc |-> "TypeError", key |-> "cff_inputs", value |-> configuration_dictionary]
    ELSE [raised |-> FALSE, exc |-> "", key |-> "", value |-> configuration_dictionary]

\* validate_configuration(configuration_dictionary, verbose): returns the
\* mapping itself, or raises naming the key
validate_configuration(configuration_dictionary) ==
    IF ~configuration_dictionary["kinematics"].present
    THEN [raised |-> TRUE, exc |-> "ValueError", key |-> "kinematics", value |-> configuration_dictionary]
    ELSE IF ~configuration_dictionary["cff_inputs"].present
    THEN [raised |-> TRUE, exc |-> "ValueError", key |-> "cff_inputs", value |-> configuration_dictionary]
    ELSE IF ~Truthy(configuration_dictionary["kinematics"].obj)
    THEN [raised |-> TRUE, exc |-> "ValueError", key |-> "kinematics", value |-> configuration_dictionary]
    ELSE IF configuration_dictionary["kinematics"].obj.cls # "BKM10Inputs"
    THEN [raised |-> TRUE, exc |-> "TypeError", key |-> "kinematics", value |-> configuration_dictionary]
    ELSE IF ~Truthy(configuration_dictionary["cff_inputs"].obj)
    THEN [raised |-> TRUE, exc |-> "ValueError", key |-> "cff_inputs", value |-> configuration_dictionary]
    ELSE IF configuration_dictionary["cff_inputs"].obj.cls # "CFFInputs"
    THEN [raised |-> TRUE, exc |-> "TypeError", key |-> "cff_inputs", value |-> configuration_dictionary]
    ELSE [raised |-> FALSE, exc |-> "", key |-> "", value |-> configuration_dictionary]

\* ------------------------------------------------------------------------
\* DifferentialCrossSection: construction (core.py)
\* ------------------------------------------------------------------------
FormalismAttributes ==
    {"formalism_plus_beam_plus_target", "formalism_minus_beam_plus_target",
     "formalism_plus_beam_minus_target", "formalism_minus_beam_minus_target"}

\* the instance right after the assignments (1)-(6) of __init__; attrs is the
\* set of the attributes of lines 311-330 that have been assigned (hasattr).
\* coefficients is the dictionary of line 138, a function from names to
\* values; debugging, which no operation reads, is left out
NewInstance(configuration_mode, bh_setting, dvcs_setting, interference_setting, verbose) ==
    [configuration_mode |-> configuration_mode,
     bh_setting |-> bh_setting,
     dvcs_setting |-> dvcs_setting,
     interference_setting |-> interference_setting,
     verbose |-> verbose,
     using_trento_angle_convention |-> TRUE,
     passed_configuration |-> FALSE,
     coefficients |-> <<>>,
     attrs |-> {},
     kinematic_inputs |-> None,
     cff_inputs |-> None,
     using_ww |-> None,
     formalism_plus_beam_plus_target |-> NoFormalism,
     formalism_minus_beam_plus_target |-> NoFormalism,
     formalism_plus_beam_minus_target |-> NoFormalism,
     formalism_minus_beam_minus_target |-> NoFormalism]

\* self.<name> = value
SetAttr(obj, name, value) == [obj EXCEPT ![name] = value, !.attrs = @ \cup {name}]

\* a plausible slip: the three toggles are not handed on, so that the
\* assembler keeps its defaults
build_formalism_beam_target_default_toggles(obj, lepton_polarization, target_polarization) ==
    BKMFormalism(obj.kinematic_inputs, obj.cff_inputs,
                 lepton_polarization, target_polarization,
                 obj.using_ww, TRUE, TRUE, TRUE)

\* _build_formalism_beam_target(lepton_polarization, target_polarization)
build_formalism_beam_target(obj, lepton_polarization, target_polarization) ==
    BKMFormalism(obj.kinematic_inputs, obj.cff_inputs,
                 lepton_polarization, target_polarization,
                 obj.using_ww, obj.bh_setting, obj.dvcs_setting, obj.interference_setting)

\* a plausible slip: the third assembler repeats the arguments of the second
build_four_formalisms_repeated_pair(obj) ==
    LET o1 == SetAttr(obj, "formalism_plus_beam_plus_target",
                      build_formalism_beam_target(obj, 1, 1))
        o2 == SetAttr(o1, "formalism_minus_beam_plus_target",
                      build_formalism_beam_target(o1, -1, 1))
        o3 == SetAttr(o2, "formalism_plus_beam_minus_target",
                      build_formalism_beam_target(o2, -1, 1))
    IN  SetAttr(o3, "formalism_minus_beam_minus_target",
                build_formalism_beam_target(o3, -1, -1))

\* lines 320-330: the four assemblers, each stored under its attribute
build_four_formalisms(obj) ==
    LET o1 == SetAttr(obj, "formalism_plus_beam_plus_target",
                      build_formalism_beam_target(obj, 1, 1))
        o2 == SetAttr(o1, "formalism_minus_beam_plus_target",
                      build_formalism_beam_target(o1, -1, 1))
        o3 == SetAttr(o2, "formalism_plus_beam_minus_target",
                      build_formalism_beam_target(o2, 1, -1))
    IN  SetAttr(o3, "formalism_minus_beam_minus_target",
                build_formalism_beam_target(o3, -1, -1))

\* a plausible slip: a failed validation is reported but not raised, and the
\* instance is left as it was
initialize_from_config_validation_not_raised(obj, configuration_dictionary) ==
    LET validated == validate_configuration(configuration_dictionary)
    IN  IF validated.raised
        THEN [raised |-> FALSE, obj |-> obj, built |-> <<>>]
        ELSE LET o1 == SetAttr(obj, "kinematic_inputs", validated.value["kinematics"].obj)
                 o2 == SetAttr(o1, "cff_inputs", validated.value["cff_inputs"].obj)
             IN  IF ~validated.value["using_ww"].present
                 THEN [raised |-> TRUE, obj |-> o2, built |-> <<>>]
                 ELSE LET o3 == SetAttr(o2, "using_ww", validated.value["using_ww"].obj)
                          o4 == build_four_formalisms(o3)
                      IN  [raised |-> FALSE, obj |-> o4,
                           built |-> <<o4.formalism_plus_beam_plus_target,
                                       o4.formalism_minus_beam_plus_target,
                                       o4.formalism_plus_beam_minus_target,
                                       o4.formalism_minus_beam_minus_target>>]

\* _initialize_from_config: [raised, obj, built], built being the assemblers
\* constructed by the call, in order
initialize_from_config(obj, configuration_dictionary) ==
    LET validated == validate_configuration(configuration_dictionary)
    IN  IF validated.raised
        THEN [raised |-> TRUE, obj |-> obj, built |-> <<>>]
        ELSE LET o1 == SetAttr(obj, "kinematic_inputs", validated.value["kinematics"].obj)
                 o2 == SetAttr(o1, "cff_inputs", validated.value["cff_inputs"].obj)
             IN  IF ~validated.value["using_ww"].present
                 THEN [raised |-> TRUE, obj |-> o2, built |-> <<>>]
                 ELSE LET o3 == SetAttr(o2, "using_ww", validated.value["using_ww"].obj)
                          o4 == build_four_formalisms(o3)
                      IN  [raised |-> FALSE, obj |-> o4,
                           built |-> <<o4.formalism_plus_beam_plus_target,
                                       o4.formalism_minus_beam_plus_target,
                                       o4.formalism_plus_beam_minus_target,
                                       o4.formalism_minus_beam_minus_target>>]

\* ------------------------------------------------------------------------
\* DifferentialCrossSection: the queries (core.py)
\* ------------------------------------------------------------------------
\* element-wise numpy array arithmetic
ArrAdd(x, y) == [i \in DOMAIN x |-> RatAdd(x[i], y[i])]

ArrSub(x, y) == [i \in DOMAIN x |-> RatSub(x[i], y[i])]

ArrDiv(x, y) == [i \in DOMAIN x |-> RatDiv(x[i], y[i])]

ArrScale(c, x) == [i \in DOMAIN x |-> RatMul(c, x[i])]

\* a returned numpy array, and a returned bare Python float
Array(elems) == [kind |-> "array", elems |-> elems]

Scalar(x) == [kind |-> "scalar", elems |-> <<x>>]

\* lines 411-421: the Trento shift of the phi array
verified_phi_values(obj, phi_values) ==
    IF obj.using_trento_angle_convention
    THEN [i \in DOMAIN AtLeast1d(phi_values) |-> TrentoShift(AtLeast1d(phi_values)[i])]
    ELSE AtLeast1d(phi_values)

\* c0 cos(0 phi) + c1 cos(phi) + c2 cos(2 phi) + c3 cos(3 phi)
\* + s1 sin(phi) + s2 sin(2 phi) + s3 sin(3 phi) of one assembler
HarmonicSum(a, q) ==
    compute_coefficient(a, "c0", q) * Cos(0, q)
    + compute_coefficient(a, "c1", q) * Cos(1, q)
    + compute_coefficient(a, "c2", q) * Cos(2, q)
    + compute_coefficient(a, "c3", q) * Cos(3, q)
    + compute_coefficient(a, "s1", q) * Sin(1, q)
    + compute_coefficient(a, "s2", q) * Sin(2, q)
    + compute_coefficient(a, "s3", q) * Sin(3, q)

\* the harmonic sum over the (shifted) phi array
Sigma(a, phis) == [i \in DOMAIN phis |-> FromInt(HarmonicSum(a, phis[i]))]

sigma_plus_beam_plus_target(obj, phis) == Sigma(obj.formalism_plus_beam_plus_target, phis)

sigma_minus_beam_plus_target(obj, phis) == Sigma(obj.formalism_minus_beam_plus_target, phis)

sigma_plus_beam_minus_target(obj, phis) == Sigma(obj.formalism_plus_beam_minus_target, phis)

sigma_minus_beam_minus_target(obj, phis) == Sigma(obj.formalism_minus_beam_minus_target, phis)

\* get_coefficient(name): self.coefficients.get(name, None)
get_coefficient(obj, name) ==
    Returned(IF name \in DOMAIN obj.coefficients THEN obj.coefficients[name] ELSE None)

\* a plausible slip: a cross section that was computed is kept in the
\* coefficients dictionary
instance_after_query_memoizing(obj, op, outcome) ==
    IF op = "compute_cross_section" /\ ~outcome.raised
    THEN [obj EXCEPT !.coefficients = [n \in {"c_0"} |-> outcome.value]]
    ELSE obj

\* the instance a query leaves behind: no statement of compute_prefactor,
\* compute_cross_section, compute_bsa, compute_tsa, compute_dsa or
\* get_coefficient assigns an attribute of self or changes an object that
\* self holds
instance_after_query(obj, op, outcome) == obj

\* a plausible slip: the unit constant is folded into the prefactor
compute_prefactor_with_unit(obj) ==
    IF "formalism_plus_beam_plus_target" \notin obj.attrs
    THEN Raised("AttributeError", "formalism_plus_beam_plus_target")
    ELSE Returned(Scalar(RatMul(FromInt(UnitConversion),
                    compute_cross_section_prefactor(obj.formalism_plus_beam_plus_target))))

\* compute_prefactor(): asks the (+1, +0.5) assembler
compute_prefactor(obj) ==
    IF "formalism_plus_beam_plus_target" \notin obj.attrs
    THEN Raised("AttributeError", "formalism_plus_beam_plus_target")
    ELSE Returned(Scalar(compute_cross_section_prefactor(obj.formalism_plus_beam_plus_target)))

\* .389379 * 1000000. * (cross_section_prefactor * sigma)
Scaled(cross_section_prefactor, sigma) ==
    ArrScale(FromInt(UnitConversion), ArrScale(cross_section_prefactor, sigma))

\* a plausible slip: the (0, 0) branch averages with 0.5 as the pair branches
unpolarized_cross_section_weighted_half(cross_section_prefactor, spp, smp, spm, smm) ==
    ArrScale(Half,
        Scaled(cross_section_prefactor, ArrAdd(ArrAdd(ArrAdd(spp, smp), spm), smm)))

\* lines 475-484: 0.25 * unit * prefactor * (all four base sigmas)
unpolarized_cross_section(cross_section_prefactor, spp, smp, spm, smm) ==
    ArrScale(Quarter,
        Scaled(cross_section_prefactor, ArrAdd(ArrAdd(ArrAdd(spp, smp), spm), smm)))

\* a plausible slip: the sum of the pair is not halved
pair_cross_section_not_halved(cross_section_prefactor, sigma_a, sigma_b) ==
    Scaled(cross_section_prefactor, ArrAdd(sigma_a, sigma_b))

\* lines 486-512, 527-534: 0.5 * unit * prefactor * (two base sigmas)
pair_cross_section(cross_section_prefactor, sigma_a, sigma_b) ==
    ArrScale(Half, Scaled(cross_section_prefactor, ArrAdd(sigma_a, sigma_b)))

\* lines 514-524, 536-546: unit * prefactor * (one base sigma)
single_cross_section(cross_section_prefactor, sigma) ==
    Scaled(cross_section_prefactor, sigma)

\* lines 470-551: the branch on (lepton_helicity, target_polarization);
\* differential_cross_section is 0.0 when no inner branch assigns it
cross_section_branches(cross_section_prefactor, spp, smp, spm, smm, lepton_helicity, target_polarization) ==
    IF lepton_helicity = 0
    THEN IF target_polarization = 0
         THEN Returned(Array(unpolarized_cross_section(cross_section_prefactor, spp, smp, spm, smm)))
         ELSE IF target_polarization = 1
         THEN Returned(Array(pair_cross_section(cross_section_prefactor, spp, smp)))
         ELSE IF target_polarization = -1
         THEN Returned(Array(pair_cross_section(cross_section_prefactor, spm, smm)))
         ELSE Returned(Scalar(FromInt(0)))
    ELSE IF lepton_helicity = 1
    THEN IF target_polarization = 0
         THEN Returned(Array(pair_cross_section(cross_section_prefactor, spp, spm)))
         ELSE IF target_polarization = 1
         THEN Returned(Array(single_cross_section(cross_section_prefactor, spp)))
         ELSE IF target_polarization = -1
         THEN Returned(Array(single_cross_section(cross_section_prefactor, spm)))
         ELSE Returned(Scalar(FromInt(0)))
    ELSE IF lepton_helicity = -1
    THEN IF target_polarization = 0
         THEN Returned(Array(pair_cross_section(cross_section_prefactor, smp, smm)))
         ELSE IF target_polarization = 1
         THEN Returned(Array(single_cross_section(cross_section_prefactor, smp)))
         ELSE IF target_polarization = -1
         THEN Returned(Array(single_cross_section(cross_section_prefactor, smm)))
         ELSE Returned(Scalar(FromInt(0)))
    ELSE Raised("NotImplementedError", "lepton_helicity")

\* a plausible slip: no guard on the configuration, so that the first read of
\* an attribute that was never assigned raises AttributeError
Precondition_without_guard(obj, phi_values) ==
    IF "kinematic_inputs" \notin obj.attrs
    THEN Raised("AttributeError", "formalism_plus_beam_plus_target")
    ELSE IF obj.verbose /\ phi_values.scalar
    THEN Raised("TypeError", "phi_values")
    ELSE Returned(<<>>)

\* lines 393-409 shared by the four compute_* operations: the guard on the
\* configuration, and len(phi_values) in verbose mode
Precondition(obj, phi_values) ==
    IF "kinematic_inputs" \notin obj.attrs
    THEN Raised("RuntimeError", "kinematic_inputs")
    ELSE IF obj.verbose /\ phi_values.scalar
    THEN Raised("TypeError", "phi_values")
    ELSE Returned(<<>>)

\* compute_cross_section(phi_values, lepton_helicity, target_polarization)
compute_cross_section(obj, phi_values, lepton_helicity, target_polarization) ==
    IF Precondition(obj, phi_values).raised
    THEN Precondition(obj, phi_values)
    ELSE LET phis == verified_phi_values(obj, phi_values)
         IN  cross_section_branches(
                compute_prefactor(obj).value.elems[1],
                sigma_plus_beam_plus_target(obj, phis),
                sigma_minus_beam_plus_target(obj, phis),
                sigma_plus_beam_minus_target(obj, phis),
                sigma_minus_beam_minus_target(obj, phis),
                lepton_helicity, target_polarization)

\* numerator / denominator of an asymmetry
Asymmetry(sigma_plus, sigma_minus) ==
    ArrDiv(ArrSub(sigma_plus, sigma_minus), ArrAdd(sigma_plus, sigma_minus))

\* a plausible slip: the Lambda = 0 branch pairs the sigmas by target
\* polarization, as compute_tsa does, instead of by helicity
bsa_branches_paired_by_target(spp, smp, spm, smm, target_polarization) ==
    IF target_polarization = 0
    THEN Returned(Array(Asymmetry(ArrScale(Half, ArrAdd(spp, smp)),
                                  ArrScale(Half, ArrAdd(spm, smm)))))
    ELSE IF target_polarization = 1
    THEN Returned(Array(Asymmetry(spp, smp)))
    ELSE IF target_polarization = -1
    THEN Returned(Array(Asymmetry(spm, smm)))
    ELSE Raised("NotImplementedError", "target_polarization")

\* lines 635-664: the branch of compute_bsa on target_polarization
bsa_branches(spp, smp, spm, smm, target_polarization) ==
    IF target_polarization = 0
    THEN Returned(Array(Asymmetry(ArrScale(Half, ArrAdd(spp, spm)),
                                  ArrScale(Half, ArrAdd(smp, smm)))))
    ELSE IF target_polarization = 1
    THEN Returned(Array(Asymmetry(spp, smp)))
    ELSE IF target_polarization = -1
    THEN Returned(Array(Asymmetry(spm, smm)))
    ELSE Raised("NotImplementedError", "target_polarization")

\* a plausible slip: the base sigmas of the BSA are scaled by the prefactor
\* as those of the cross section are
compute_bsa_scaled_by_prefactor(obj, phi_values, target_polarization) ==
    IF Precondition(obj, phi_values).raised
    THEN Precondition(obj, phi_values)
    ELSE LET phis == verified_phi_values(obj, phi_values)
             pf == compute_cross_section_prefactor(obj.formalism_plus_beam_plus_target)
         IN  bsa_branches(
                ArrScale(pf, sigma_plus_beam_plus_target(obj, phis)),
                ArrScale(pf, sigma_minus_beam_plus_target(obj, phis)),
                ArrScale(pf, sigma_plus_beam_minus_target(obj, phis)),
                ArrScale(pf, sigma_minus_beam_minus_target(obj, phis)),
                target_polarization)

\* compute_bsa(phi_values, target_polarization)
compute_bsa(obj, phi_values, target_polarization) ==
    IF Precondition(obj, phi_values).raised
    THEN Precondition(obj, phi_values)
    ELSE LET phis == verified_phi_values(obj, phi_values)
         IN  bsa_branches(
                sigma_plus_beam_plus_target(obj, phis),
                sigma_minus_beam_plus_target(obj, phis),
                sigma_plus_beam_minus_target(obj, phis),
                sigma_minus_beam_minus_target(obj, phis),
                target_polarization)

\* a plausible slip: the lambda = -1 branch reads the lambda = +1 sigmas
tsa_branches_minus_reads_plus(spp, smp, spm, smm, lepton_polarization) ==
    IF lepton_polarization = 0
    THEN Returned(Array(Asymmetry(ArrScale(Half, ArrAdd(spp, smp)),
                                  ArrScale(Half, ArrAdd(spm, smm)))))
    ELSE IF lepton_polarization = 1
    THEN Returned(Array(Asymmetry(spp, spm)))
    ELSE IF lepton_polarization = -1
    THEN Returned(Array(Asymmetry(spp, spm)))
    ELSE Raised("NotImplementedError", "lepton_polarization")

\* lines 762-791: the branch of compute_tsa on lepton_polarization
tsa_branches(spp, smp, spm, smm, lepton_polarization) ==
    IF lepton_polarization = 0
    THEN Returned(Array(Asymmetry(ArrScale(Half, ArrAdd(spp, smp)),
                                  ArrScale(Half, ArrAdd(spm, smm)))))
    ELSE IF lepton_polarization = 1
    THEN Returned(Array(Asymmetry(spp, spm)))
    ELSE IF lepton_polarization = -1
    THEN Returned(Array(Asymmetry(smp, smm)))
    ELSE Raised("NotImplementedError", "lepton_polarization")

\* compute_tsa(phi_values, lepton_polarization)
compute_tsa(obj, phi_values, lepton_polarization) ==
    IF Precondition(obj, phi_values).raised
    THEN Precondition(obj, phi_values)
    ELSE LET phis == verified_phi_values(obj, phi_values)
         IN  tsa_branches(
                sigma_plus_beam_plus_target(obj, phis),
                sigma_minus_beam_plus_target(obj, phis),
                sigma_plus_beam_minus_target(obj, phis),
                sigma_minus_beam_minus_target(obj, phis),
                lepton_polarization)

\* a plausible slip: the second difference is added instead of subtracted
dsa_ratio_added_difference(spp, smp, spm, smm) ==
    ArrDiv(ArrAdd(ArrSub(spp, spm), ArrSub(smp, smm)),
           ArrAdd(ArrAdd(ArrAdd(spp, spm), smp), smm))

\* lines 875-885: numerator and denominator of the DSA
dsa_ratio(spp, smp, spm, smm) ==
    ArrDiv(ArrSub(ArrSub(spp, spm), ArrSub(smp, smm)),
           ArrAdd(ArrAdd(ArrAdd(spp, spm), smp), smm))

\* compute_dsa(phi_values)
compute_dsa(obj, phi_values) ==
    IF Precondition(obj, phi_values).raised
    THEN Precondition(obj, phi_values)
    ELSE LET phis == verified_phi_values(obj, phi_values)
         IN  Returned(Array(dsa_ratio(
                sigma_plus_beam_plus_target(obj, phis),
                sigma_minus_beam_plus_target(obj, phis),
                sigma_plus_beam_minus_target(obj, phis),
                sigma_minus_beam_minus_target(obj, phis))))

\* ------------------------------------------------------------------------
\* DifferentialCrossSection: the plot_* operations (core.py)
\* ------------------------------------------------------------------------
\* what axis.plot(phi_values, values) draws: the phi values as the caller
\* passed them against the computed values
Figure(phi_values, values) ==
    [kind |-> "figure", x |-> AtLeast1d(phi_values), elems |-> values.elems]

\* the part of a plot_* operation after its compute_* call: an exception of
\* the call propagates; matplotlib refuses x and y of different lengths
draw(phi_values, values) ==
    IF values.raised THEN values
    ELSE IF Len(values.value.elems) # Len(AtLeast1d(phi_values))
    THEN Raised("ValueError", "")
    ELSE Returned(Figure(phi_values, values.value))

\* plot_cross_section(phi_values, lepton_helicity, target_polarization, ...)
plot_cross_section(obj, phi_values, lepton_helicity, target_polarization) ==
    draw(phi_values, compute_cross_section(obj, phi_values, lepton_helicity, target_polarization))

\* plot_bsa(phi_values, target_polarization, ...)
plot_bsa(obj, phi_values, target_polarization) ==
    draw(phi_values, compute_bsa(obj, phi_values, target_polarization))

\* plot_tsa(phi_values, lepton_helicity, ...)
plot_tsa(obj, phi_values, lepton_helicity) ==
    draw(phi_values, compute_tsa(obj, phi_values, lepton_helicity))

\* plot_dsa(phi_values, ...)
plot_dsa(obj, phi_values) ==
    draw(phi_values, compute_dsa(obj, phi_values))

\* ------------------------------------------------------------------------
\* The angles a compute_* operation evaluates at
\* ------------------------------------------------------------------------
\* the angles of the np.cos(n * verified_phi_values), np.sin(...) factors
harmonic_angles(obj, phi_values) == verified_phi_values(obj, phi_values)

\* the angles handed to compute_c0_coefficient .. compute_s3_coefficient
coefficient_angles(obj, phi_values) == verified_phi_values(obj, phi_values)

\* the angles whose cosine enters k.Delta, and with it the propagators, when
\* a coefficient is evaluated at the angles it was handed
k_dot_delta_angles(obj, phi_values) ==
    [i \in DOMAIN coefficient_angles(obj, phi_values) |->
        k_dot_delta_angle(coefficient_angles(obj, phi_values)[i])]

\* ------------------------------------------------------------------------
\* The backend selector and MathWrapper (backend.py)
\* ------------------------------------------------------------------------
\* _backend = "numpy"
DefaultBackend == "numpy"

\* the names a caller may pass to set_backend; two of them are not backends
BackendNames == {"numpy", "tensorflow", "jax", "torch"}

\* the names of the math operations looked up on the wrapper
MathNames == {"power", "sqrt", "cos"}

\* a plausible slip: the selector is assigned before the name is checked
set_backend_assigns_first(selector, backend) ==
    IF backend \notin {"numpy", "tensorflow"}
    THEN [outcome |-> Raised("ValueError", "backend"), selector |-> backend]
    ELSE [outcome |-> Returned(None), selector |-> backend]

\* set_backend(backend): the outcome and the value of _backend afterwards
set_backend(selector, backend) ==
    IF backend \notin {"numpy", "tensorflow"}
    THEN [outcome |-> Raised("ValueError", "backend"), selector |-> selector]
    ELSE [outcome |-> Returned(None), selector |-> backend]

\* a plausible slip: the default is returned instead of the global
get_backend_returns_default(selector) == Returned("numpy")

\* get_backend()
get_backend(selector) == Returned(selector)

\* an attribute of a library: what a lookup is dispatched to
Attribute(module, attr) == [module |-> module, attr |-> attr]

\* a plausible slip: the module is chosen once, when the wrapper is created
\* under the default selector, and not at each lookup
select_module_at_creation(selector) == "numpy"

\* line 68: mod = _np if _backend == "numpy" else _tf
select_module(selector) == IF selector = "numpy" THEN "numpy" ELSE "tensorflow"

\* lines 71-75, with the module of line 68 and _backend as read at line 71
resolve_attribute(mod, selector, name) ==
    IF name = "power" /\ selector = "tensorflow"
    THEN Attribute("tensorflow", "pow")
    ELSE Attribute(mod, name)

\* MathWrapper.__getattr__(name) when nothing writes _backend meanwhile
MathWrapper_getattr(selector, name) ==
    resolve_attribute(select_module(selector), selector, name)

\* the library operations of the composer's own arithmetic in a compute_*
\* operation: np.atleast_1d, np.cos and np.sin of the numpy import
composer_dispatch == {Attribute("numpy", name) : name \in {"atleast_1d", "cos", "sin"}}

\* the library operations of the coefficient evaluation of an assembler,
\* looked up on the wrapper at the time of the call
coefficient_dispatch(selector) == {MathWrapper_getattr(selector, name) : name \in MathNames}

\* every library operation a compute_* operation performs: none when it
\* raises before its arithmetic
compute_dispatch(obj, phi_values, selector) ==
    IF Precondition(obj, phi_values).raised THEN {}
    ELSE composer_dispatch \cup coefficient_dispatch(selector)

\* ------------------------------------------------------------------------
\* Floating-point numbers of the kinematic derivation (formalism.py).  A
\* number is [np, cls, v]: np tells a numpy float64 (the result of np.sqrt
\* and of any arithmetic with one) from a Python float; cls is "finite",
\* "inf", "nan", or "none" for the value None; v is the value in units of
\* 1 / FixedScale when finite and the sign when infinite.  An exception
\* raised while an expression is evaluated is carried as cls: every
\* operation on it yields it again, as the exception leaves the expression.
\* Results are rounded to the nearest multiple of 1 / FixedScale (square
\* roots are rounded down); zero has no sign.
\* ------------------------------------------------------------------------
FixedScale == 100000000

FixedBase == 10000

PyNum(v) == [np |-> FALSE, cls |-> "finite", v |-> v]

NpNum(v) == [np |-> TRUE, cls |-> "finite", v |-> v]

Infinite(np, sign) == [np |-> np, cls |-> "inf", v |-> sign]

NaN(np) == [np |-> np, cls |-> "nan", v |-> 0]

PyNone == [np |-> FALSE, cls |-> "none", v |-> 0]

Exception(name) == [np |-> FALSE, cls |-> name, v |-> 0]

IsException(x) == x.cls \in {"ZeroDivisionError", "TypeError"}

\* the exception an operation on x and y raises before it computes anything
\* ("" when it raises none): one that an operand already is, or the
\* TypeError of arithmetic on None
OperandError(x, y) ==
    IF IsException(x) THEN x.cls
    ELSE IF IsException(y) THEN y.cls
    ELSE IF x.cls = "none" \/ y.cls = "none" THEN "TypeError"
    ELSE ""

\* the parts of the product of two magnitudes: a * b = whole * FixedScale + rest
MulParts(a, b) ==
    LET ah == a \div FixedBase
        al == a % FixedBase
        bh == b \div FixedBase
        bl == b % FixedBase
        t  == ah * bl + al * bh
        low == (t % FixedBase) * FixedBase + al * bl
    IN  [whole |-> ah * bh + t \div FixedBase + low \div FixedScale,
         rest |-> low % FixedScale]

\* a * b / FixedScale, rounded to nearest
MulMag(a, b) ==
    MulParts(a, b).whole + (IF 2 * MulParts(a, b).rest >= FixedScale THEN 1 ELSE 0)

\* <<q, s>> with 10 * r = q * b + s and 0 <= s < b, for 0 <= r < b
RECURSIVE TimesTen(_, _, _, _, _)
TimesTen(r, b, i, acc, q) ==
    IF i = 0 THEN <<q, acc>>
    ELSE IF acc + r >= b THEN TimesTen(r, b, i - 1, acc + r - b, q + 1)
    ELSE TimesTen(r, b, i - 1, acc + r, q)

\* <<q, r>> after n more decimal digits of the quotient by b
RECURSIVE LongDiv(_, _, _, _)
LongDiv(r, b, n, q) ==
    IF n = 0 THEN <<q, r>>
    ELSE LongDiv(TimesTen(r, b, 10, 0, 0)[2], b, n - 1, 10 * q + TimesTen(r, b, 10, 0, 0)[1])

\* a * FixedScale / b, rounded to nearest, for b > 0
DivMag(a, b) ==
    LET qr == LongDiv(a % b, b, 8, a \div b)
    IN  qr[1] + (IF 2 * qr[2] >= b THEN 1 ELSE 0)

\* r * r <= x * FixedScale
SquareAtMost(r, x) ==
    \/ MulParts(r, r).whole < x
    \/ MulParts(r, r).whole = x /\ MulParts(r, r).rest = 0

\* the largest r in lo .. hi - 1 with r * r <= x * FixedScale
RECURSIVE SqrtSearch(_, _, _)
SqrtSearch(x, lo, hi) ==
    IF hi - lo <= 1 THEN lo
    ELSE LET mid == lo + (hi - lo) \div 2
         IN  IF SquareAtMost(mid, x) THEN SqrtSearch(x, mid, hi) ELSE SqrtSearch(x, lo, mid)

SqrtMag(x) == SqrtSearch(x, 0, 4 * FixedScale)

\* x + y
Add(x, y) ==
    IF OperandError(x, y) # "" THEN Exception(OperandError(x, y))
    ELSE IF x.cls = "nan" \/ y.cls = "nan" THEN NaN(x.np \/ y.np)
    ELSE IF x.cls = "inf" /\ y.cls = "inf"
    THEN IF x.v = y.v THEN Infinite(x.np \/ y.np, x.v) ELSE NaN(x.np \/ y.np)
    ELSE IF x.cls = "inf" THEN Infinite(x.np \/ y.np, x.v)
    ELSE IF y.cls = "inf" THEN Infinite(x.np \/ y.np, y.v)
    ELSE [np |-> x.np \/ y.np, cls |-> "finite", v |-> x.v + y.v]

\* -x
Neg(x) == IF x.cls \in {"finite", "inf"} THEN [x EXCEPT !.v = -x.v] ELSE x

\* x - y
Sub(x, y) == Add(x, Neg(y))

\* x * y
Mul(x, y) ==
    IF OperandError(x, y) # "" THEN Exception(OperandError(x, y))
    ELSE IF x.cls = "nan" \/ y.cls = "nan" THEN NaN(x.np \/ y.np)
    ELSE IF x.cls = "inf" \/ y.cls = "inf"
    THEN IF x.v = 0 \/ y.v = 0 THEN NaN(x.np \/ y.np)
         ELSE Infinite(x.np \/ y.np, Sign(x.v) * Sign(y.v))
    ELSE [np |-> x.np \/ y.np, cls |-> "finite",
          v |-> Sign(x.v) * Sign(y.v) * MulMag(Abs(x.v), Abs(y.v))]

\* x / y: a zero divisor raises ZeroDivisionError between two Python floats
\* and gives inf or nan (with a RuntimeWarning) when a float64 is involved
Div(x, y) ==
    IF OperandError(x, y) # "" THEN Exception(OperandError(x, y))
    ELSE IF y.cls = "finite" /\ y.v = 0 /\ ~x.np /\ ~y.np THEN Exception("ZeroDivisionError")
    ELSE IF x.cls = "nan" \/ y.cls = "nan" THEN NaN(x.np \/ y.np)
    ELSE IF y.cls = "inf"
    THEN IF x.cls = "inf" THEN NaN(x.np \/ y.np) ELSE [np |-> x.np \/ y.np, cls |-> "finite", v |-> 0]
    ELSE IF y.v = 0
    THEN IF x.v = 0 THEN NaN(TRUE) ELSE Infinite(TRUE, Sign(x.v))
    ELSE IF x.cls = "inf" THEN Infinite(x.np \/ y.np, x.v * Sign(y.v))
    ELSE [np |-> x.np \/ y.np, cls |-> "finite",
          v |-> Sign(x.v) * Sign(y.v) * DivMag(Abs(x.v), Abs(y.v))]

\* np.sqrt(x): nan (with a RuntimeWarning) for a negative number
NpSqrt(x) ==
    IF IsException(x) THEN x
    ELSE IF x.cls = "none" THEN Exception("TypeError")
    ELSE IF x.cls = "nan" THEN NaN(TRUE)
    ELSE IF x.cls = "inf" THEN (IF x.v > 0 THEN Infinite(TRUE, 1) ELSE NaN(TRUE))
    ELSE IF x.v < 0 THEN NaN(TRUE)
    ELSE NpNum(SqrtMag(x.v))

\* x**2
Squared(x) == Mul(x, x)

\* a float literal of the source, n / d
Literal(n, d) == PyNum((n * FixedScale) \div d)

\* ------------------------------------------------------------------------
\* The kinematic derivation of formalism.py: BKMFormalism.__init__(inputs,
\* formalism_version, verbose) and its _calculate_* methods.  self is a
\* record of the attributes; attrs lists, in the order of their assignment,
\* the derived quantities that have been assigned.
\* ------------------------------------------------------------------------
\* _MASS_OF_PROTON_IN_GEV of bkm10_lib.constants: 0.93827208816
MASS_OF_PROTON_IN_GEV == PyNum(93827209)

\* self after lines 16-22 of __init__
NewFormalism(inputs, verbose) ==
    [kinematics |-> inputs,
     verbose |-> verbose,
     attrs |-> <<>>,
     epsilon |-> PyNone,
     lepton_energy_fraction |-> PyNone,
     skewness_parameter |-> PyNone,
     t_minimum |-> PyNone,
     squared_hadronic_momentum_transfer_t_minimum |-> PyNone,
     t_prime |-> PyNone,
     k_tilde |-> PyNone,
     kinematic_k |-> PyNone,
     k_dot_delta |-> PyNone]

\* hasattr(self, name), for the attributes a derivation step assigns
HasAttribute(self, name) == \E i \in DOMAIN self.attrs : self.attrs[i] = name

\* self.name = value
Assign(self, name, value) == [self EXCEPT ![name] = value, !.attrs = Append(@, name)]

\* the outcome of a _calculate_* method: the value it returns, the exception
\* its except clause caught and printed ("" when none), and the exception
\* that leaves the method ("" when none)
\* try: ... return <expression>  except Exception: print(...); return 0.
TryReturn(expression) ==
    IF IsException(expression)
    THEN [value |-> PyNum(0), caught |-> expression.cls, raised |-> ""]
    ELSE [value |-> expression, caught |-> "", raised |-> ""]

\* the read of an attribute of self that was never assigned, outside the try
AttributeError == [value |-> PyNone, caught |-> "", raised |-> "AttributeError"]

\* _calculate_epsilon: (2. * x_Bjorken * _MASS_OF_PROTON_IN_GEV) / np.sqrt(Q^2)
calculate_epsilon(self) ==
    TryReturn(Div(Mul(Mul(Literal(2, 1), x_Bjorken(self.kinematics)), MASS_OF_PROTON_IN_GEV),
                  NpSqrt(squared_Q_momentum_transfer(self.kinematics))))

\* _calculate_lepton_energy_fraction_y: np.sqrt(Q^2) / (epsilon * k)
calculate_lepton_energy_fraction_y(self) ==
    IF ~HasAttribute(self, "epsilon") THEN AttributeError
    ELSE TryReturn(Div(NpSqrt(squared_Q_momentum_transfer(self.kinematics)),
                       Mul(self.epsilon, lab_kinematics_k(self.kinematics))))

\* _calculate_skewness_parameter
calculate_skewness_parameter(self) ==
    LET t == squared_hadronic_momentum_transfer_t(self.kinematics)
        Q2 == squared_Q_momentum_transfer(self.kinematics)
        xB == x_Bjorken(self.kinematics)
        numerator == Add(Literal(1, 1), Div(t, Mul(Literal(2, 1), Q2)))
        denominator == Add(Sub(Literal(2, 1), xB), Div(Mul(xB, t), Q2))
    IN  TryReturn(Div(Mul(xB, numerator), denominator))

\* _calculate_t_minimum
calculate_t_minimum(self) ==
    IF ~HasAttribute(self, "epsilon") THEN AttributeError
    ELSE LET Q2 == squared_Q_momentum_transfer(self.kinematics)
             xB == x_Bjorken(self.kinematics)
             one_minus_xb == Sub(Literal(1, 1), xB)
             root == NpSqrt(Add(Literal(1, 1), Squared(self.epsilon)))
             numerator == Add(Mul(Mul(Literal(2, 1), one_minus_xb), Sub(Literal(1, 1), root)),
                              Squared(self.epsilon))
             denominator == Add(Mul(Mul(Literal(4, 1), xB), one_minus_xb), Squared(self.epsilon))
         IN  TryReturn(Div(Mul(Mul(Literal(-1, 1), Q2), numerator), denominator))

\* _calculate_t_prime: t - t_minimum
calculate_t_prime(self) ==
    IF ~HasAttribute(self, "t_minimum") THEN AttributeError
    ELSE TryReturn(Sub(squared_hadronic_momentum_transfer_t(self.kinematics), self.t_minimum))

\* lines 307-313 of _calculate_k_tilde: the two quantities whose square
\* roots are taken, t_min - t and the second root quantity, for a t_min
k_tilde_radicands(self, t_minimum) ==
    LET t == squared_hadronic_momentum_transfer_t(self.kinematics)
        Q2 == squared_Q_momentum_transfer(self.kinematics)
        xB == x_Bjorken(self.kinematics)
        tmin_minus_t == Sub(t_minimum, t)
        one_minus_xb == Sub(Literal(1, 1), xB)
    IN  [tmin_minus_t |-> tmin_minus_t,
         second_root_quantity |->
             Add(Mul(one_minus_xb, NpSqrt(Add(Literal(1, 1), Squared(self.epsilon)))),
                 Div(Mul(tmin_minus_t,
                         Add(Squared(self.epsilon), Mul(Mul(Literal(4, 1), one_minus_xb), xB))),
                     Mul(Literal(4, 1), Q2)))]

\* _calculate_k_tilde: lines 298-302 read
\* self.squared_hadronic_momentum_transfer_t_minimum and self.epsilon before
\* the try; line 316 takes the two square roots as they are
calculate_k_tilde(self) ==
    IF ~HasAttribute(self, "squared_hadronic_momentum_transfer_t_minimum") THEN AttributeError
    ELSE IF ~HasAttribute(self, "epsilon") THEN AttributeError
    ELSE LET radicands == k_tilde_radicands(self, self.squared_hadronic_momentum_transfer_t_minimum)
         IN  TryReturn(Mul(NpSqrt(radicands.tmin_minus_t), NpSqrt(radicands.second_root_quantity)))

\* the kinematic points of the derivation: the point of the tests
\* (Q^2 = 1.82, xB = 0.34, t = -0.17, k = 5.75) and points at and beyond the
\* edges of the physical region
ReferenceInputs == BKM10Inputs(PyNum(182000000), PyNum(34000000), PyNum(-17000000), PyNum(575000000))

DerivationInputs ==
    {BKM10Inputs(q2, xb, t, k) :
        q2 \in {PyNum(182000000), PyNum(0), PyNum(-100000000), PyNone},
        xb \in {PyNum(34000000), PyNum(0), PyNum(100000000)},
        t \in {PyNum(-17000000), PyNum(0), PyNum(-10000000), PyNum(-182000000)},
        k \in {PyNum(575000000), PyNum(0)}}

\* ------------------------------------------------------------------------
\* The state machine: one construction, then queries on the instance
\* ------------------------------------------------------------------------
VARIABLES
    phase,          \* "start", "constructed" (an instance exists) or "failed"
    configuration,  \* the argument the constructor was called with
    dcs,            \* the DifferentialCrossSection instance
    built,          \* every BKMFormalism constructed so far, in order
    call,           \* the operation the caller has called, with its arguments
    ret,            \* its outcome, until the caller drops it
    dispatched,     \* the library operations the call in flight performed
    backend,        \* the module global _backend of backend.py
    requested,      \* the argument of the most recent set_backend that succeeded
    threads,        \* the threads that select a backend and look up operations
    formalism,      \* the BKMFormalism instance under construction (self)
    step,           \* the derivation step __init__ is at
    stdout,         \* what the derivation printed, in order
    error           \* the exception that left __init__, if any

vars == <<phase, configuration, dcs, built, call, ret, dispatched, backend, requested, threads, formalism, step, stdout, error>>

\* the instance and what was built for it
composer_vars == <<phase, configuration, dcs, built>>

\* the selector and its observers
backend_vars == <<backend, requested, threads>>

\* the construction of an assembler
derivation_vars == <<formalism, step, stdout, error>>

\* no exception
NoError == [exc |-> "", quantity |-> ""]

\* no assembler is under construction
NoDerivation ==
    /\ formalism = NewFormalism(None, FALSE)
    /\ step = "idle"
    /\ stdout = <<>>
    /\ error = NoError

\* the values a caller may pass as lepton helicity (2 is not a legal one)
HelicityArguments == {-1, 0, 1, 2}

\* the values a caller may pass as target polarization, doubled (2, that is
\* Lambda = 1.0, is not a legal one)
PolarizationArguments == {-1, 0, 1, 2}

NoPhi == [scalar |-> TRUE, v |-> <<0>>]

Call(op, phi_values, lepton_helicity, target_polarization) ==
    [op |-> op, phi_values |-> phi_values,
     lepton_helicity |-> lepton_helicity, target_polarization |-> target_polarization,
     name |-> "", configuration_dictionary |-> Mapping(Absent, Absent, Absent, Absent)]

\* a call whose one argument is a name
CallNamed(op, name) == [Call(op, NoPhi, 0, 0) EXCEPT !.name = name]

\* ------------------------------------------------------------------------
\* Threads: each calls set_backend(request) and then looks operations up on
\* the wrapper; a lookup reads _backend at line 68 and again at line 71
\* ------------------------------------------------------------------------
ThreadIds == {"A", "B"}

\* lookups a thread makes after its set_backend
MaxLookups == 2

Thread(pc, request) ==
    [pc |-> pc, request |-> request, name |-> "", mod |-> "",
     result |-> Attribute("", ""), lookups |-> 0]

\* no thread besides the caller's
NoThreads == [t \in ThreadIds |-> Thread("idle", "")]

Init ==
    /\ phase = "start"
    /\ configuration = NoConfiguration
    /\ dcs = NewInstance(FALSE, TRUE, TRUE, TRUE, FALSE)
    /\ built = <<>>
    /\ call = Call("none", NoPhi, 0, 0)
    /\ ret = Returned(<<>>)
    /\ dispatched = {}
    /\ backend = DefaultBackend
    /\ requested = ""
    /\ threads = NoThreads
    /\ NoDerivation

\* DifferentialCrossSection(configuration, bh_setting, dvcs_setting,
\*                          interference_setting, verbose)
Construct ==
    /\ phase = "start"
    /\ \E c \in ConstructorArguments, s \in ConstructorSettings :
        LET o0 == NewInstance(~c.is_none, s[1], s[2], s[3], s[4])
            r == initialize_from_config(o0, c.d)
        IN  /\ configuration' = c
            /\ call' = Call("__init__", NoPhi, 0, 0)
            /\ IF ~o0.configuration_mode
               THEN /\ dcs' = o0
                    /\ built' = built
                    /\ phase' = "constructed"
                    /\ ret' = Returned(<<>>)
               ELSE IF r.raised
               THEN /\ dcs' = dcs
                    /\ built' = built \o r.built
                    /\ phase' = "failed"
                    /\ ret' = Raised("Exception", "")
               ELSE /\ dcs' = [r.obj EXCEPT !.passed_configuration = TRUE]
                    /\ built' = built \o r.built
                    /\ phase' = "constructed"
                    /\ ret' = Returned(<<>>)
    /\ dispatched' = {}
    /\ UNCHANGED <<backend_vars, derivation_vars>>

\* validate_configuration(configuration_dictionary, verbose) called directly
ValidateConfiguration ==
    /\ phase = "constructed"
    /\ call.op = "none"
    /\ \E d \in Configurations :
        /\ call' = [Call("validate_configuration", NoPhi, 0, 0) EXCEPT !.configuration_dictionary = d]
        /\ ret' = validate_configuration(d)
    /\ dispatched' = {}
    /\ UNCHANGED <<composer_vars, backend_vars, derivation_vars>>

ComputePrefactor ==
    /\ phase = "constructed"
    /\ call.op = "none"
    /\ call' = Call("compute_prefactor", NoPhi, 0, 0)
    /\ ret' = compute_prefactor(dcs)
    /\ dcs' = instance_after_query(dcs, "compute_prefactor", compute_prefactor(dcs))
    /\ dispatched' = IF compute_prefactor(dcs).raised THEN {} ELSE coefficient_dispatch(backend)
    /\ UNCHANGED <<phase, configuration, built, backend_vars, derivation_vars>>

ComputeCrossSection ==
    /\ phase = "constructed"
    /\ call.op = "none"
    /\ \E phi_values \in PhiInputs, lepton_helicity \in HelicityArguments,
          target_polarization \in PolarizationArguments :
        /\ call' = Call("compute_cross_section", phi_values, lepton_helicity, target_polarization)
        /\ ret' = compute_cross_section(dcs, phi_values, lepton_helicity, target_polarization)
        /\ dcs' = instance_after_query(dcs, "compute_cross_section", compute_cross_section(dcs, phi_values, lepton_helicity, target_polarization))
        /\ dispatched' = compute_dispatch(dcs, phi_values, backend)
    /\ UNCHANGED <<phase, configuration, built, backend_vars, derivation_vars>>

ComputeBsa ==
    /\ phase = "constructed"
    /\ call.op = "none"
    /\ \E phi_values \in PhiInputs, target_polarization \in PolarizationArguments :
        /\ call' = Call("compute_bsa", phi_values, 0, target_polarization)
        /\ ret' = compute_bsa(dcs, phi_values, target_polarization)
        /\ dcs' = instance_after_query(dcs, "compute_bsa", compute_bsa(dcs, phi_values, target_polarization))
        /\ dispatched' = compute_dispatch(dcs, phi_values, backend)
    /\ UNCHANGED <<phase, configuration, built, backend_vars, derivation_vars>>

ComputeTsa ==
    /\ phase = "constructed"
    /\ call.op = "none"
    /\ \E phi_values \in PhiInputs, lepton_polarization \in HelicityArguments :
        /\ call' = Call("compute_tsa", phi_values, lepton_polarization, 0)
        /\ ret' = compute_tsa(dcs, phi_values, lepton_polarization)
        /\ dcs' = instance_after_query(dcs, "compute_tsa", compute_tsa(dcs, phi_values, lepton_polarization))
        /\ dispatched' = compute_dispatch(dcs, phi_values, backend)
    /\ UNCHANGED <<phase, configuration, built, backend_vars, derivation_vars>>

ComputeDsa ==
    /\ phase = "constructed"
    /\ call.op = "none"
    /\ \E phi_values \in PhiInputs :
        /\ call' = Call("compute_dsa", phi_values, 0, 0)
        /\ ret' = compute_dsa(dcs, phi_values)
        /\ dcs' = instance_after_query(dcs, "compute_dsa", compute_dsa(dcs, phi_values))
        /\ dispatched' = compute_dispatch(dcs, phi_values, backend)
    /\ UNCHANGED <<phase, configuration, built, backend_vars, derivation_vars>>

PlotCrossSection ==
    /\ phase = "constructed"
    /\ call.op = "none"
    /\ \E phi_values \in PhiInputs, lepton_helicity \in HelicityArguments,
          target_polarization \in PolarizationArguments :
        /\ call' = Call("plot_cross_section", phi_values, lepton_helicity, target_polarization)
        /\ ret' = plot_cross_section(dcs, phi_values, lepton_helicity, target_polarization)
        /\ dispatched' = compute_dispatch(dcs, phi_values, backend)
    /\ UNCHANGED <<composer_vars, backend_vars, derivation_vars>>

PlotBsa ==
    /\ phase = "constructed"
    /\ call.op = "none"
    /\ \E phi_values \in PhiInputs, target_polarization \in PolarizationArguments :
        /\ call' = Call("plot_bsa", phi_values, 0, target_polarization)
        /\ ret' = plot_bsa(dcs, phi_values, target_polarization)
        /\ dispatched' = compute_dispatch(dcs, phi_values, backend)
    /\ UNCHANGED <<composer_vars, backend_vars, derivation_vars>>

PlotTsa ==
    /\ phase = "constructed"
    /\ call.op = "none"
    /\ \E phi_values \in PhiInputs, lepton_helicity \in HelicityArguments :
        /\ call' = Call("plot_tsa", phi_values, lepton_helicity, 0)
        /\ ret' = plot_tsa(dcs, phi_values, lepton_helicity)
        /\ dispatched' = compute_dispatch(dcs, phi_values, backend)
    /\ UNCHANGED <<composer_vars, backend_vars, derivation_vars>>

PlotDsa ==
    /\ phase = "constructed"
    /\ call.op = "none"
    /\ \E phi_values \in PhiInputs :
        /\ call' = Call("plot_dsa", phi_values, 0, 0)
        /\ ret' = plot_dsa(dcs, phi_values)
        /\ dispatched' = compute_dispatch(dcs, phi_values, backend)
    /\ UNCHANGED <<composer_vars, backend_vars, derivation_vars>>

\* backend.set_backend(name)
SetBackend ==
    /\ phase = "constructed"
    /\ call.op = "none"
    /\ \E name \in BackendNames :
        /\ call' = CallNamed("set_backend", name)
        /\ ret' = set_backend(backend, name).outcome
        /\ backend' = set_backend(backend, name).selector
        /\ requested' = IF set_backend(backend, name).outcome.raised THEN requested ELSE name
    /\ dispatched' = {}
    /\ UNCHANGED <<composer_vars, threads, derivation_vars>>

\* the names a caller asks get_coefficient for
CoefficientNames == {"c_0", "s_1"}

\* get_coefficient(name)
GetCoefficient ==
    /\ phase = "constructed"
    /\ call.op = "none"
    /\ \E name \in CoefficientNames :
        /\ call' = CallNamed("get_coefficient", name)
        /\ ret' = get_coefficient(dcs, name)
        /\ dcs' = instance_after_query(dcs, "get_coefficient", get_coefficient(dcs, name))
    /\ dispatched' = {}
    /\ UNCHANGED <<phase, configuration, built, backend_vars, derivation_vars>>

\* backend.get_backend()
GetBackend ==
    /\ phase = "constructed"
    /\ call.op = "none"
    /\ call' = CallNamed("get_backend", "")
    /\ ret' = get_backend(backend)
    /\ dispatched' = {}
    /\ UNCHANGED <<composer_vars, backend_vars, derivation_vars>>

\* backend.math.<name>
MathLookup ==
    /\ phase = "constructed"
    /\ call.op = "none"
    /\ \E name \in MathNames :
        /\ call' = CallNamed("math", name)
        /\ ret' = Returned(MathWrapper_getattr(backend, name))
        /\ dispatched' = {MathWrapper_getattr(backend, name)}
    /\ UNCHANGED <<composer_vars, backend_vars, derivation_vars>>

\* the caller is done with the outcome of its call (its frame ends) and the
\* instance is idle again
Discard ==
    /\ phase = "constructed"
    /\ call.op # "none"
    /\ call' = Call("none", NoPhi, 0, 0)
    /\ ret' = Returned(<<>>)
    /\ dispatched' = {}
    /\ UNCHANGED <<composer_vars, backend_vars, derivation_vars>>

\* thread t runs set_backend(request)
ThreadSetBackend(t) ==
    /\ threads[t].pc = "set"
    /\ backend' = set_backend(backend, threads[t].request).selector
    /\ requested' = IF set_backend(backend, threads[t].request).outcome.raised
                    THEN requested ELSE threads[t].request
    /\ threads' = [threads EXCEPT ![t].pc = "lookup"]
    /\ UNCHANGED <<composer_vars, call, ret, dispatched, derivation_vars>>

\* thread t enters MathWrapper.__getattr__(name) and runs line 68
ThreadSelectModule(t) ==
    /\ threads[t].pc = "lookup"
    /\ threads[t].lookups < MaxLookups
    /\ \E name \in MathNames :
        threads' = [threads EXCEPT ![t].pc = "resolve", ![t].name = name,
                                   ![t].mod = select_module(backend)]
    /\ UNCHANGED <<composer_vars, call, ret, dispatched, backend, requested, derivation_vars>>

\* thread t runs lines 71-75 and has the operation in hand
ThreadResolveAttribute(t) ==
    /\ threads[t].pc = "resolve"
    /\ threads' = [threads EXCEPT
                     ![t].pc = "lookup",
                     ![t].result = resolve_attribute(threads[t].mod, backend, threads[t].name),
                     ![t].lookups = @ + 1]
    /\ UNCHANGED <<composer_vars, call, ret, dispatched, backend, requested, derivation_vars>>

\* a derivation step of __init__: self.attribute = <method>(); outcome is
\* the outcome of the method, quantity the name its messages print
DerivationStep(here, attribute, quantity, outcome, next) ==
    /\ step = here
    /\ formalism' = IF outcome.raised = "" THEN Assign(formalism, attribute, outcome.value)
                    ELSE formalism
    /\ stdout' = IF outcome.caught # ""
                 THEN Append(stdout, [error |-> TRUE, quantity |-> quantity])
                 ELSE IF outcome.raised = "" /\ formalism.verbose
                 THEN Append(stdout, [error |-> FALSE, quantity |-> quantity])
                 ELSE stdout
    /\ error' = IF outcome.raised = "" THEN error
                ELSE [exc |-> outcome.raised, quantity |-> quantity]
    /\ step' = IF outcome.raised = "" THEN next ELSE "raised"
    /\ ret' = IF outcome.raised = "" THEN ret ELSE Raised(outcome.raised, quantity)
    /\ UNCHANGED <<composer_vars, call, dispatched, backend_vars>>

\* line 25: self.epsilon = self._calculate_epsilon()
CalculateEpsilon ==
    DerivationStep("epsilon", "epsilon", "epsilon", calculate_epsilon(formalism), "y")

\* line 28: self.lepton_energy_fraction = self._calculate_lepton_energy_fraction_y()
CalculateLeptonEnergyFractionY ==
    DerivationStep("y", "lepton_energy_fraction", "y",
                   calculate_lepton_energy_fraction_y(formalism), "xi")

\* line 31: self.skewness_parameter = self._calculate_skewness_parameter()
CalculateSkewnessParameter ==
    DerivationStep("xi", "skewness_parameter", "xi", calculate_skewness_parameter(formalism), "t_min")

\* line 34: self.t_minimum = self._calculate_t_minimum()
CalculateTMinimum ==
    DerivationStep("t_min", "t_minimum", "t_min", calculate_t_minimum(formalism), "t_prime")

\* line 37: self.t_prime = self._calculate_t_prime()
CalculateTPrime ==
    DerivationStep("t_prime", "t_prime", "t_prime", calculate_t_prime(formalism), "k_tilde")

\* line 40: self.k_tilde = self._calculate_k_tilde()
CalculateKTilde ==
    DerivationStep("k_tilde", "k_tilde", "k_tilde", calculate_k_tilde(formalism), "k")

\* one caller: a construction, then queries on the instance
Next ==
    \/ Construct
    \/ Discard
    \/ ValidateConfiguration
    \/ ComputePrefactor
    \/ ComputeCrossSection
    \/ ComputeBsa
    \/ ComputeTsa
    \/ ComputeDsa

Spec == Init /\ [][Next]_vars

\* a kinematic point at the edge of the physical region: Q^2 = 0
DegenerateKinematics == BKM10Inputs(0, 1, -1, 3)

\* the configurations of the instances a session starts with
SessionConfigurations ==
    {[is_none |-> FALSE, d |-> Mapping(Entry(kin), Entry(cff), Entry(PyBool(ww)), Absent)] :
        kin \in KinematicsValues \cup {DegenerateKinematics}, cff \in CFFValues, ww \in BOOLEAN}

\* the instance DifferentialCrossSection(configuration = c, verbose = verbose)
\* makes, and the assemblers built for it
Constructed(c, verbose) ==
    LET r == initialize_from_config(NewInstance(TRUE, TRUE, TRUE, TRUE, verbose), c.d)
    IN  [obj |-> [r.obj EXCEPT !.passed_configuration = TRUE], built |-> r.built]

\* a session of one caller with a configured instance: it computes and
\* plots observables, and selects and reads the backend in between
InitSession ==
    /\ phase = "constructed"
    /\ \E c \in SessionConfigurations, verbose \in BOOLEAN :
        /\ configuration = c
        /\ dcs = Constructed(c, verbose).obj
        /\ built = Constructed(c, verbose).built
    /\ call = Call("none", NoPhi, 0, 0)
    /\ ret = Returned(<<>>)
    /\ dispatched = {}
    /\ backend = DefaultBackend
    /\ requested = ""
    /\ threads = NoThreads
    /\ NoDerivation

NextSession ==
    \/ Discard
    \/ SetBackend
    \/ GetBackend
    \/ MathLookup
    \/ ComputePrefactor
    \/ GetCoefficient
    \/ ComputeCrossSection
    \/ ComputeBsa
    \/ ComputeTsa
    \/ ComputeDsa
    \/ PlotCrossSection
    \/ PlotBsa
    \/ PlotTsa
    \/ PlotDsa

SessionSpec == InitSession /\ [][NextSession]_vars

\* two threads of one process, each about to select a backend of its own
InitThreads ==
    /\ phase = "start"
    /\ configuration = NoConfiguration
    /\ dcs = NewInstance(FALSE, TRUE, TRUE, TRUE, FALSE)
    /\ built = <<>>
    /\ call = Call("none", NoPhi, 0, 0)
    /\ ret = Returned(<<>>)
    /\ dispatched = {}
    /\ backend = DefaultBackend
    /\ requested = ""
    /\ threads \in {[t \in ThreadIds |-> Thread("set", IF t = "A" THEN a ELSE b)] :
                        a \in {"numpy", "tensorflow"}, b \in {"numpy", "tensorflow"}}
    /\ NoDerivation

NextThreads ==
    \E t \in ThreadIds :
        \/ ThreadSetBackend(t)
        \/ ThreadSelectModule(t)
        \/ ThreadResolveAttribute(t)

ThreadSpec == InitThreads /\ [][NextThreads]_vars

\* a caller builds an assembler, BKMFormalism(inputs, verbose = verbose), to
\* ask it for k.Delta on an array of phi, as the tests do; the construction
\* is seen after lines 16-22 of __init__, and ret is what the caller gets
InitDerivation ==
    /\ phase = "start"
    /\ configuration = NoConfiguration
    /\ dcs = NewInstance(FALSE, TRUE, TRUE, TRUE, FALSE)
    /\ built = <<>>
    /\ \E phi_values \in PhiInputs : call = Call("calculate_k_dot_delta", phi_values, 0, 0)
    /\ ret = Returned(<<>>)
    /\ dispatched = {}
    /\ backend = DefaultBackend
    /\ requested = ""
    /\ threads = NoThreads
    /\ \E inputs \in DerivationInputs, verbose \in BOOLEAN :
        formalism = NewFormalism(inputs, verbose)
    /\ step = "epsilon"
    /\ stdout = <<>>
    /\ error = NoError

\* lines 24-40 of __init__; line 40 raises, so that lines 43 and 46 (K and
\* k.Delta) are not reached
NextDerivation ==
    \/ CalculateEpsilon
    \/ CalculateLeptonEnergyFractionY
    \/ CalculateSkewnessParameter
    \/ CalculateTMinimum
    \/ CalculateTPrime
    \/ CalculateKTilde

DerivationSpec == InitDerivation /\ [][NextDerivation]_vars

\* ------------------------------------------------------------------------
\* Vocabulary of the properties
\* ------------------------------------------------------------------------
LegalHelicities == {-1, 0, 1}

LegalPolarizations == {-1, 0, 1}

\* the call in flight returned a numpy array
ReturnedArray(op) ==
    /\ call.op = op
    /\ ~ret.raised
    /\ ret.value.kind = "array"

\* the assemblers the instance holds
HeldAssemblers == {dcs[name] : name \in FormalismAttributes \cap dcs.attrs}

\* the held assemblers that were constructed with (lambda, Lambda)
AssemblersWith(l, L) ==
    {a \in HeldAssemblers : a.lepton_polarization = l /\ a.target_polarization = L}

\* the i-th phi sample of the call, after the Trento shift pi - phi
ShiftedPhi(i) == TrentoShift(call.phi_values.v[i])

\* the base sigma of the assembler constructed with (l, L) at sample i
BaseSigma(l, L, i) ==
    HarmonicSum(CHOOSE a \in AssemblersWith(l, L) : TRUE, ShiftedPhi(i))

\* every polarization pair has exactly one assembler
OnePerPair ==
    \A l \in {-1, 1}, L \in {-1, 1} : Cardinality(AssemblersWith(l, L)) = 1

\* the cross section the instance returns for the phi of the call in flight
CS(l, L) == compute_cross_section(dcs, call.phi_values, l, L).value.elems

Samples == DOMAIN call.phi_values.v

\* ------------------------------------------------------------------------
\* C1: the unpolarized cross section is the mean of the four fully polarized
\* cross sections of the same instance at the same phi:
\* 4 * cs(phi, 0, 0) = cs(+1,+0.5) + cs(-1,+0.5) + cs(+1,-0.5) + cs(-1,-0.5)
\* ------------------------------------------------------------------------
C1_UnpolarizedIsMeanOfFour ==
    (ReturnedArray("compute_cross_section")
     /\ call.lepton_helicity = 0 /\ call.target_polarization = 0)
    => /\ DOMAIN ret.value.elems = Samples
       /\ \A i \in Samples :
            RatMul(FromInt(4), ret.value.elems[i])
            = RatAdd(RatAdd(RatAdd(CS(1, 1)[i], CS(-1, 1)[i]), CS(1, -1)[i]), CS(-1, -1)[i])

\* an unpolarized cross section of two samples was returned, and the four
\* polarized cross sections it averages are four different numbers
C1_Witness ==
    /\ ReturnedArray("compute_cross_section")
    /\ call.lepton_helicity = 0 /\ call.target_polarization = 0
    /\ Len(ret.value.elems) = 2
    /\ Cardinality({CS(1, 1)[1], CS(-1, 1)[1], CS(1, -1)[1], CS(-1, -1)[1]}) = 4
    /\ ret.value.elems[1] # FromInt(0)

\* ------------------------------------------------------------------------
\* C2: zero on one polarization axis is the average of the two signed values
\* of that axis, whatever the value on the other axis:
\* cs(phi, 0, Lambda) = 1/2 (cs(phi,+1,Lambda) + cs(phi,-1,Lambda)) and
\* cs(phi, lambda, 0) = 1/2 (cs(phi,lambda,+0.5) + cs(phi,lambda,-0.5))
\* ------------------------------------------------------------------------
C2_ZeroIsAxisAverage ==
    (ReturnedArray("compute_cross_section")
     /\ call.lepton_helicity \in LegalHelicities
     /\ call.target_polarization \in LegalPolarizations)
    => /\ call.lepton_helicity = 0
          => \A i \in Samples :
                ret.value.elems[i]
                = RatMul(Half, RatAdd(CS(1, call.target_polarization)[i],
                                      CS(-1, call.target_polarization)[i]))
       /\ call.target_polarization = 0
          => \A i \in Samples :
                ret.value.elems[i]
                = RatMul(Half, RatAdd(CS(call.lepton_helicity, 1)[i],
                                      CS(call.lepton_helicity, -1)[i]))

\* a helicity-averaged cross section at a polarized target was returned and
\* the two cross sections it averages differ
C2_Witness ==
    /\ ReturnedArray("compute_cross_section")
    /\ call.lepton_helicity = 0 /\ call.target_polarization = -1
    /\ CS(1, -1)[1] # CS(-1, -1)[1]
    /\ ret.value.elems[1] # FromInt(0)

\* ------------------------------------------------------------------------
\* C3: for lambda, Lambda both nonzero the cross section is unit constant *
\* prefactor * harmonic sum of the one assembler constructed with that same
\* (lambda, Lambda); no other assembler contributes
\* ------------------------------------------------------------------------
C3_PolarizedIsOneBaseSigma ==
    (ReturnedArray("compute_cross_section")
     /\ call.lepton_helicity \in {-1, 1} /\ call.target_polarization \in {-1, 1})
    => /\ Cardinality(AssemblersWith(call.lepton_helicity, call.target_polarization)) = 1
       /\ DOMAIN ret.value.elems = Samples
       /\ \A i \in Samples :
            ret.value.elems[i]
            = RatMul(FromInt(UnitConversion),
                     RatMul(compute_cross_section_prefactor(
                                CHOOSE a \in AssemblersWith(call.lepton_helicity,
                                                            call.target_polarization) : TRUE),
                            FromInt(BaseSigma(call.lepton_helicity, call.target_polarization, i))))

\* a fully polarized cross section was returned on an instance whose four
\* base sigmas are four different numbers at that phi
C3_Witness ==
    /\ ReturnedArray("compute_cross_section")
    /\ call.lepton_helicity = -1 /\ call.target_polarization = 1
    /\ OnePerPair
    /\ Cardinality({BaseSigma(l, L, 1) : l \in {-1, 1}, L \in {-1, 1}}) = 4
    /\ ret.value.elems[1] # FromInt(0)

\* ------------------------------------------------------------------------
\* C4: compute_cross_section with a pair (lambda, Lambda) outside
\* {-1,0,+1} x {-0.5,0,+0.5} raises and returns no value, also when lambda is
\* legal and only Lambda is illegal
\* ------------------------------------------------------------------------
C4_IllegalPairRaises ==
    (call.op = "compute_cross_section"
     /\ ~(call.lepton_helicity \in LegalHelicities
          /\ call.target_polarization \in LegalPolarizations))
    => ret.raised

\* the sigma of helicity l at target polarization L that the BSA uses: a base
\* sigma, or for L = 0 the 1/2-weighted sum of the two that share l
SigmaOfHelicity(l, L, i) ==
    IF L # 0 THEN FromInt(BaseSigma(l, L, i))
    ELSE RatAdd(RatMul(Half, FromInt(BaseSigma(l, 1, i))),
                RatMul(Half, FromInt(BaseSigma(l, -1, i))))

\* the sigma of target polarization L at helicity l that the TSA uses
SigmaOfPolarization(l, L, i) ==
    IF l # 0 THEN FromInt(BaseSigma(l, L, i))
    ELSE RatAdd(RatMul(Half, FromInt(BaseSigma(1, L, i))),
                RatMul(Half, FromInt(BaseSigma(-1, L, i))))

\* the call in flight passes the checks that precede the evaluation
Evaluates == ~Precondition(dcs, call.phi_values).raised

\* ------------------------------------------------------------------------
\* C5: compute_bsa(phi, Lambda) = (s_plus - s_minus) / (s_plus + s_minus),
\* s_plus and s_minus being the sigmas of helicity +1 and -1 at Lambda (for
\* Lambda = 0 the 1/2-weighted sums over Lambda); any other Lambda raises and
\* returns nothing
\* ------------------------------------------------------------------------
C5_BsaIsHelicityRatio ==
    call.op = "compute_bsa"
    => IF call.target_polarization \notin LegalPolarizations
       THEN ret.raised /\ ret.value = <<>>
       ELSE Evaluates
            => /\ ReturnedArray("compute_bsa")
               /\ DOMAIN ret.value.elems = Samples
               /\ \A i \in Samples :
                    LET s_plus == SigmaOfHelicity(1, call.target_polarization, i)
                        s_minus == SigmaOfHelicity(-1, call.target_polarization, i)
                    IN  ret.value.elems[i]
                        = RatDiv(RatSub(s_plus, s_minus), RatAdd(s_plus, s_minus))

\* an unpolarized-target BSA that is a proper, nonzero asymmetry was returned
\* on an instance whose four base sigmas are four different numbers
C5_Witness ==
    /\ ReturnedArray("compute_bsa")
    /\ call.target_polarization = 0
    /\ OnePerPair
    /\ Cardinality({BaseSigma(l, L, 1) : l \in {-1, 1}, L \in {-1, 1}}) = 4
    /\ IsFinite(ret.value.elems[1])
    /\ ret.value.elems[1] # FromInt(0)

\* ------------------------------------------------------------------------
\* C6: compute_tsa(phi, lambda) = (s_up - s_down) / (s_up + s_down), s_up and
\* s_down being the sigmas of Lambda = +0.5 and -0.5 at lambda (for lambda = 0
\* the 1/2-weighted sums over lambda); any other lambda raises and returns
\* nothing
\* ------------------------------------------------------------------------
C6_TsaIsTargetRatio ==
    call.op = "compute_tsa"
    => IF call.lepton_helicity \notin LegalHelicities
       THEN ret.raised /\ ret.value = <<>>
       ELSE Evaluates
            => /\ ReturnedArray("compute_tsa")
               /\ DOMAIN ret.value.elems = Samples
               /\ \A i \in Samples :
                    LET s_up == SigmaOfPolarization(call.lepton_helicity, 1, i)
                        s_down == SigmaOfPolarization(call.lepton_helicity, -1, i)
                    IN  ret.value.elems[i]
                        = RatDiv(RatSub(s_up, s_down), RatAdd(s_up, s_down))

\* a TSA at helicity -1 that is a proper, nonzero asymmetry was returned and
\* it is not the TSA of helicity +1
C6_Witness ==
    /\ ReturnedArray("compute_tsa")
    /\ call.lepton_helicity = -1
    /\ OnePerPair
    /\ IsFinite(ret.value.elems[1])
    /\ ret.value.elems[1] # FromInt(0)
    /\ ret.value.elems[1] # compute_tsa(dcs, call.phi_values, 1).value.elems[1]

\* ------------------------------------------------------------------------
\* C7: compute_dsa(phi) = [(s(+,+) - s(+,-)) - (s(-,+) - s(-,-))] /
\* [s(+,+) + s(+,-) + s(-,+) + s(-,-)] of the four base sigmas themselves,
\* s(a,b) being the sigma of the assembler built with helicity a and target
\* polarization b
\* ------------------------------------------------------------------------
C7_DsaFromFourBaseSigmas ==
    (call.op = "compute_dsa" /\ Evaluates)
    => /\ ReturnedArray("compute_dsa")
       /\ DOMAIN ret.value.elems = Samples
       /\ \A i \in Samples :
            ret.value.elems[i]
            = Rat((BaseSigma(1, 1, i) - BaseSigma(1, -1, i))
                  - (BaseSigma(-1, 1, i) - BaseSigma(-1, -1, i)),
                  BaseSigma(1, 1, i) + BaseSigma(1, -1, i)
                  + BaseSigma(-1, 1, i) + BaseSigma(-1, -1, i))

\* a DSA of two samples that is a proper, nonzero asymmetry was returned
C7_Witness ==
    /\ ReturnedArray("compute_dsa")
    /\ Len(ret.value.elems) = 2
    /\ OnePerPair
    /\ BaseSigma(-1, 1, 1) # BaseSigma(-1, -1, 1)
    /\ IsFinite(ret.value.elems[1])
    /\ ret.value.elems[1] # FromInt(0)

\* the polarization pairs a legal (l, L) selects: a zero selects both signs
Selected(l, L) ==
    {p \in {-1, 1} \X {-1, 1} : (l = 0 \/ p[1] = l) /\ (L = 0 \/ p[2] = L)}

\* the sum of the base sigmas of the pairs in S at sample i
SigmaSum(S, i) ==
    (IF <<1, 1>> \in S THEN BaseSigma(1, 1, i) ELSE 0)
    + (IF <<-1, 1>> \in S THEN BaseSigma(-1, 1, i) ELSE 0)
    + (IF <<1, -1>> \in S THEN BaseSigma(1, -1, i) ELSE 0)
    + (IF <<-1, -1>> \in S THEN BaseSigma(-1, -1, i) ELSE 0)

\* the pairs that enter an asymmetry with a plus sign and with a minus sign
PlusPairs ==
    IF call.op = "compute_bsa" THEN Selected(1, call.target_polarization)
    ELSE IF call.op = "compute_tsa" THEN Selected(call.lepton_helicity, 1)
    ELSE {<<1, 1>>, <<-1, -1>>}

MinusPairs ==
    IF call.op = "compute_bsa" THEN Selected(-1, call.target_polarization)
    ELSE IF call.op = "compute_tsa" THEN Selected(call.lepton_helicity, -1)
    ELSE {<<1, -1>>, <<-1, 1>>}

\* ------------------------------------------------------------------------
\* C8: each of the nine legal branches of compute_cross_section multiplies
\* its combination of base sigmas by the prefactor and by 0.389379e6 exactly
\* once; compute_bsa, compute_tsa and compute_dsa multiply by neither, their
\* value is the ratio of the unscaled sigmas whatever the prefactor is
\* ------------------------------------------------------------------------
C8_ScaleOnlyOnCrossSection ==
    /\ (ReturnedArray("compute_cross_section")
        /\ call.lepton_helicity \in LegalHelicities
        /\ call.target_polarization \in LegalPolarizations)
       => \A i \in Samples :
            RatMul(FromInt(Cardinality(Selected(call.lepton_helicity, call.target_polarization))),
                   ret.value.elems[i])
            = RatMul(FromInt(UnitConversion),
                     RatMul(compute_prefactor(dcs).value.elems[1],
                            FromInt(SigmaSum(Selected(call.lepton_helicity,
                                                      call.target_polarization), i))))
    /\ (ReturnedArray("compute_bsa") \/ ReturnedArray("compute_tsa") \/ ReturnedArray("compute_dsa"))
       => \A i \in Samples :
            ret.value.elems[i]
            = Rat(SigmaSum(PlusPairs, i) - SigmaSum(MinusPairs, i),
                  SigmaSum(PlusPairs, i) + SigmaSum(MinusPairs, i))

\* a proper, nonzero BSA was returned by an instance whose prefactor is zero
\* and whose cross section therefore vanishes
C8_Witness ==
    /\ ReturnedArray("compute_bsa")
    /\ call.target_polarization \in LegalPolarizations
    /\ compute_prefactor(dcs).value.elems[1] = FromInt(0)
    /\ CS(1, call.target_polarization)[1] = FromInt(0)
    /\ IsFinite(ret.value.elems[1])
    /\ ret.value.elems[1] # FromInt(0)

\* ------------------------------------------------------------------------
\* C9: after a successful construction the composer holds exactly four
\* assemblers, (+1,+0.5), (-1,+0.5), (+1,-0.5), (-1,-0.5), all built from the
\* same kinematics, CFFs, use_ww flag and BH/DVCS/interference toggles; no
\* assembler with lambda = 0 or Lambda = 0 is ever built, at construction or
\* by a later query
\* ------------------------------------------------------------------------
C9_ExactlyFourAssemblers ==
    /\ \A i \in DOMAIN built :
        built[i].lepton_polarization # 0 /\ built[i].target_polarization # 0
    /\ (phase = "constructed" /\ dcs.passed_configuration)
       => /\ Len(built) = 4
          /\ FormalismAttributes \subseteq dcs.attrs
          /\ HeldAssemblers = {built[i] : i \in DOMAIN built}
          /\ dcs.formalism_plus_beam_plus_target.lepton_polarization = 1
          /\ dcs.formalism_plus_beam_plus_target.target_polarization = 1
          /\ dcs.formalism_minus_beam_plus_target.lepton_polarization = -1
          /\ dcs.formalism_minus_beam_plus_target.target_polarization = 1
          /\ dcs.formalism_plus_beam_minus_target.lepton_polarization = 1
          /\ dcs.formalism_plus_beam_minus_target.target_polarization = -1
          /\ dcs.formalism_minus_beam_minus_target.lepton_polarization = -1
          /\ dcs.formalism_minus_beam_minus_target.target_polarization = -1
          /\ \A a \in HeldAssemblers :
                /\ a.inputs = configuration.d["kinematics"].obj
                /\ a.cff_values = configuration.d["cff_inputs"].obj
                /\ a.using_ww = configuration.d["using_ww"].obj
                /\ a.bh_on = dcs.bh_setting
                /\ a.dvcs_on = dcs.dvcs_setting
                /\ a.interference_on = dcs.interference_setting

\* an unpolarized cross section was returned by an instance built with the
\* DVCS and interference terms switched off, and four assemblers were built
C9_Witness ==
    /\ ReturnedArray("compute_cross_section")
    /\ call.lepton_helicity = 0 /\ call.target_polarization = 0
    /\ dcs.passed_configuration
    /\ dcs.bh_setting /\ ~dcs.dvcs_setting /\ ~dcs.interference_setting
    /\ Len(built) = 4

ComputeOps == {"compute_cross_section", "compute_bsa", "compute_tsa", "compute_dsa"}

PlotOps == {"plot_cross_section", "plot_bsa", "plot_tsa", "plot_dsa"}

\* the caller's phi samples, each shifted once: pi - phi
ShiftedOnce == [i \in Samples |-> TrentoShift(call.phi_values.v[i])]

C12_UnconfiguredRaisesRuntimeError ==
    (phase = "constructed" /\ configuration.is_none /\ call.op \in ComputeOps)
    => /\ ret.raised
       /\ ret.exc = "RuntimeError"
       /\ ret.value = <<>>
       /\ dispatched = {}

\* compute_dsa was called on an instance constructed without a configuration
C12_Witness ==
    /\ phase = "constructed"
    /\ configuration.is_none
    /\ ~dcs.configuration_mode
    /\ call.op = "compute_dsa"
    /\ ret.exc = "RuntimeError"

\* the attributes a configured instance has
ConfiguredAttributes == {"kinematic_inputs", "cff_inputs", "using_ww"} \cup FormalismAttributes

\* the constructor was handed a mapping that validate_configuration refuses
ValidationFails == ~configuration.is_none /\ validate_configuration(configuration.d).raised

WrongEntry(entry, cls) == ~entry.present \/ ~Truthy(entry.obj) \/ entry.obj.cls # cls

\* the error the validator owes for such an entry: ValueError when the value
\* is absent or falsy, TypeError when it is of another class
ErrorFor(entry) == IF ~entry.present \/ ~Truthy(entry.obj) THEN "ValueError" ELSE "TypeError"

\* the mapping validate_configuration was called with
Given == call.configuration_dictionary

\* validate_configuration raised the error owed for key
RaisedFor(key) == ret.raised /\ ret.key = key /\ ret.exc = ErrorFor(Given[key])

\* ------------------------------------------------------------------------
\* C14 as stated: validate_configuration returns the mapping it was given,
\* unchanged, or raises naming the offending key, ValueError for an absent or
\* falsy value and TypeError for a value of another class; kinematics is
\* checked before cff_inputs, so that the error names kinematics when both
\* are wrong
\* ------------------------------------------------------------------------
C14_KinematicsNamedFirst ==
    call.op = "validate_configuration"
    => IF WrongEntry(Given["kinematics"], "BKM10Inputs") THEN RaisedFor("kinematics")
       ELSE IF WrongEntry(Given["cff_inputs"], "CFFInputs") THEN RaisedFor("cff_inputs")
       ELSE ~ret.raised /\ ret.value = Given

\* ------------------------------------------------------------------------
\* C14 as amended: the same, except for the order: the presence of the two
\* keys is checked first, kinematics before cff_inputs, and then the two
\* values in the same order; when both are wrong the error names kinematics
\* unless kinematics is present and cff_inputs is absent, and then it names
\* cff_inputs
\* ------------------------------------------------------------------------
C14_PresenceThenValues ==
    call.op = "validate_configuration"
    => IF ~Given["kinematics"].present THEN RaisedFor("kinematics")
       ELSE IF ~Given["cff_inputs"].present THEN RaisedFor("cff_inputs")
       ELSE IF WrongEntry(Given["kinematics"], "BKM10Inputs") THEN RaisedFor("kinematics")
       ELSE IF WrongEntry(Given["cff_inputs"], "CFFInputs") THEN RaisedFor("cff_inputs")
       ELSE ~ret.raised /\ ret.value = Given

\* a mapping whose two values are both present and both wrong was refused
\* with the TypeError of kinematics
C14_Witness ==
    /\ call.op = "validate_configuration"
    /\ Given["kinematics"].present /\ Given["cff_inputs"].present
    /\ WrongEntry(Given["kinematics"], "BKM10Inputs")
    /\ WrongEntry(Given["cff_inputs"], "CFFInputs")
    /\ ret.raised /\ ret.key = "kinematics" /\ ret.exc = "TypeError"

\* ------------------------------------------------------------------------
\* C15: using_ww is optional: a mapping with a valid kinematics and a valid
\* cff_inputs and no using_ww key is accepted by the constructor, and the
\* four assemblers are built with using_ww = false
\* ------------------------------------------------------------------------
C15_UsingWwOptional ==
    (phase # "start" /\ ~configuration.is_none
     /\ ~validate_configuration(configuration.d).raised
     /\ ~configuration.d["using_ww"].present)
    => /\ phase = "constructed"
       /\ dcs.passed_configuration
       /\ Cardinality(HeldAssemblers) = 4
       /\ \A a \in HeldAssemblers : ~Truthy(a.using_ww)

\* the selector as the successful set_backend calls so far leave it
ExpectedBackend == IF requested = "" THEN "numpy" ELSE requested

\* ------------------------------------------------------------------------
\* C16: the selector is 'numpy' at first; after any sequence of set_backend
\* calls, successful or not, it is 'numpy' or 'tensorflow', and get_backend()
\* returns the argument of the most recent set_backend that succeeded
\* ------------------------------------------------------------------------
C16_SelectorIsLastAccepted ==
    /\ backend \in {"numpy", "tensorflow"}
    /\ backend = ExpectedBackend
    /\ call.op = "get_backend" => (~ret.raised /\ ret.value = ExpectedBackend)

\* get_backend() returned 'tensorflow'
C16_Witness ==
    /\ call.op = "get_backend"
    /\ ~ret.raised
    /\ ret.value = "tensorflow"
    /\ requested = "tensorflow"

\* a step that is a set_backend call with a name that is not a backend
RejectedSetBackend ==
    /\ call.op = "none"
    /\ call'.op = "set_backend"
    /\ call'.name \notin {"numpy", "tensorflow"}

\* ------------------------------------------------------------------------
\* C17: set_backend with a name other than 'numpy' and 'tensorflow' raises
\* ValueError and leaves the selector as it was: get_backend() and every
\* lookup of a math operation give after the call what they gave before
\* ------------------------------------------------------------------------
C17_RejectedNameChangesNothing ==
    [][RejectedSetBackend
       => /\ ret'.raised /\ ret'.exc = "ValueError"
          /\ backend' = backend
          /\ get_backend(backend') = get_backend(backend)
          /\ \A name \in MathNames :
                MathWrapper_getattr(backend', name) = MathWrapper_getattr(backend, name)]_vars

\* a set_backend call was rejected while the selector was 'tensorflow'
C17_Witness ==
    /\ call.op = "set_backend"
    /\ call.name = "jax"
    /\ ret.raised
    /\ backend = "tensorflow"

\* ------------------------------------------------------------------------
\* C18: every math operation of a coefficient or observable computation is
\* resolved against the backend selected when the call is made: after
\* set_backend(X) each operation of a compute_* call (also one a plot_*
\* operation makes) and each lookup on the wrapper is dispatched to the
\* library of X, `power` being `pow` under 'tensorflow'
\* ------------------------------------------------------------------------
C18_DispatchFollowsSelector ==
    call.op \in ComputeOps \cup PlotOps \cup {"math"}
    => \A a \in dispatched :
            /\ a.module = ExpectedBackend
            /\ ExpectedBackend = "tensorflow" => a.attr # "power"

\* a lookup of thread t that has run line 68, and one that has run line 75
SelectsModule(t) == threads[t].pc = "lookup" /\ threads'[t].pc = "resolve"

ResolvesAttribute(t) == threads[t].pc = "resolve" /\ threads'[t].pc = "lookup"

\* ------------------------------------------------------------------------
\* C19: two threads that select two different backends are not isolated
\* from each other: each read of a lookup sees the selector as the most
\* recent set_backend of any thread left it, not as the thread's own
\* set_backend left it, so that a lookup a thread makes after its own
\* set_backend can be dispatched to the library the other thread selected
\* ------------------------------------------------------------------------
C19_LookupFollowsLastWriter ==
    [][\A t \in ThreadIds :
        /\ SelectsModule(t) => threads'[t].mod = ExpectedBackend
        /\ ResolvesAttribute(t)
           => threads'[t].result
              = IF threads[t].name = "power" /\ ExpectedBackend = "tensorflow"
                THEN Attribute("tensorflow", "pow")
                ELSE Attribute(threads[t].mod, threads[t].name)]_vars

\* thread A called set_backend('numpy'), thread B set_backend('tensorflow'),
\* and a lookup A made after its own call is of the tensorflow library
C19_Witness ==
    /\ threads["A"].request = "numpy"
    /\ threads["B"].request = "tensorflow"
    /\ threads["A"].pc = "lookup"
    /\ threads["A"].lookups >= 1
    /\ threads["A"].result.module = "tensorflow"

\* the arguments of the call in flight are legal ones
LegalArguments ==
    /\ call.lepton_helicity \in LegalHelicities
    /\ call.target_polarization \in LegalPolarizations

\* the operation of the call in flight, with its polarization arguments, on
\* another phi input
Observable(phi_values) ==
    IF call.op = "compute_cross_section"
    THEN compute_cross_section(dcs, phi_values, call.lepton_helicity, call.target_polarization)
    ELSE IF call.op = "compute_bsa" THEN compute_bsa(dcs, phi_values, call.target_polarization)
    ELSE IF call.op = "compute_tsa" THEN compute_tsa(dcs, phi_values, call.lepton_helicity)
    ELSE compute_dsa(dcs, phi_values)

\* the one-element array of sample i of the call in flight
OneSample(i) == [scalar |-> FALSE, v |-> <<call.phi_values.v[i]>>]

\* ------------------------------------------------------------------------
\* C20: on a configured instance, for legal polarization arguments,
\* compute_cross_section, compute_bsa, compute_tsa and compute_dsa return an
\* array with one element per phi sample, in the order of the samples, a
\* scalar phi counting as a one-element array; and no call, legal or not,
\* returns a bare scalar
\* ------------------------------------------------------------------------
C20_ArrayPerPhiSample ==
    /\ (call.op \in ComputeOps /\ dcs.passed_configuration /\ LegalArguments)
       => /\ ~ret.raised
          /\ ret.value.kind = "array"
          /\ DOMAIN ret.value.elems = Samples
          /\ \A i \in Samples : ret.value.elems[i] = Observable(OneSample(i)).value.elems[1]
    /\ (call.op \in ComputeOps /\ ~ret.raised) => ret.value.kind = "array"

\* the operations that return an asymmetry
AsymmetryOps == {"compute_bsa", "compute_tsa", "compute_dsa"}

\* x is a number of the interval [-1, 1]: neither inf nor nan
InUnitInterval(x) == x[2] > 0 /\ -x[2] <= x[1] /\ x[1] <= x[2]

\* ------------------------------------------------------------------------
\* C21: every value compute_bsa, compute_tsa and compute_dsa return lies in
\* [-1, 1], for every phi, every legal polarization argument and every
\* setting of the BH, DVCS and interference toggles
\* ------------------------------------------------------------------------
C21_AsymmetryInUnitInterval ==
    (call.op \in AsymmetryOps /\ ~ret.raised /\ ret.value.kind = "array")
    => \A i \in DOMAIN ret.value.elems : InUnitInterval(ret.value.elems[i])

\* the steps of the derivation
DerivationSteps == {"epsilon", "y", "xi", "t_min", "t_prime", "k_tilde"}

\* __init__ has returned or raised
Finished == step \notin DerivationSteps \cup {"idle"}

\* the seven derived quantities, in the order of the dependency chain
DerivedOrder ==
    <<"epsilon", "lepton_energy_fraction", "skewness_parameter", "t_minimum", "t_prime",
      "k_tilde", "kinematic_k">>

\* the reference values of the derived quantities at Q^2 = 1.82, xB = 0.34,
\* t = -0.17, k = 5.75, rounded to 8 decimal places
ReferenceValues ==
    [epsilon |-> 47293561,
     lepton_energy_fraction |-> 49609612,
     skewness_parameter |-> 19906189,
     t_minimum |-> -13551824,
     t_prime |-> -3448176,
     k_tilde |-> 15924157,
     kinematic_k |-> 8492693]

\* x and the reference value agree to 7 decimal places: they differ by less
\* than half a unit of the seventh place
AgreeTo7Places(x, reference) == x.cls = "finite" /\ Abs(x.v - reference) < FixedScale \div 20000000

\* ------------------------------------------------------------------------
\* C22: for Q^2 = 1.82, xB = 0.34, t = -0.17, k = 5.75 the assembler has the
\* seven derived quantities epsilon, y, xi, t_min, t', K-tilde and K, each
\* equal to its reference value to 7 decimal places
\* ------------------------------------------------------------------------
C22_ReferenceKinematics ==
    (Finished /\ formalism.kinematics = ReferenceInputs)
    => \A i \in DOMAIN DerivedOrder :
            /\ HasAttribute(formalism, DerivedOrder[i])
            /\ AgreeTo7Places(formalism[DerivedOrder[i]], ReferenceValues[DerivedOrder[i]])

\* ------------------------------------------------------------------------
\* C23: the construction of an assembler computes the derived quantities
\* once each, in the order epsilon, y, xi, t_min, t', K-tilde, K; no step
\* reads an attribute that has not been assigned, so that the construction
\* ends with all seven assigned
\* ------------------------------------------------------------------------
C23_DerivationChain ==
    /\ Len(formalism.attrs) <= Len(DerivedOrder)
    /\ \A i \in DOMAIN formalism.attrs : formalism.attrs[i] = DerivedOrder[i]
    /\ error.exc # "AttributeError"
    /\ Finished => Len(formalism.attrs) = Len(DerivedOrder)

\* ------------------------------------------------------------------------
\* C24: k.Delta is evaluated from the phi array of each call, one value per
\* phi sample: the caller who builds an assembler and asks it for k.Delta on
\* a phi array gets an array with one value per sample, and the assembler
\* has no k.Delta that was computed at construction and stored
\* ------------------------------------------------------------------------
C24_KDotDeltaPerPhiSample ==
    Finished
    => /\ call.op = "calculate_k_dot_delta"
       /\ ~ret.raised
       /\ ret.value # <<>>
       /\ ret.value.kind = "array"
       /\ DOMAIN ret.value.elems = DOMAIN AtLeast1d(call.phi_values)
       /\ ~HasAttribute(formalism, "k_dot_delta")

\* the method of the step the construction is at
OutcomeAt(here) ==
    CASE here = "epsilon" -> calculate_epsilon(formalism)
      [] here = "y" -> calculate_lepton_energy_fraction_y(formalism)
      [] here = "xi" -> calculate_skewness_parameter(formalism)
      [] here = "t_min" -> calculate_t_minimum(formalism)
      [] here = "t_prime" -> calculate_t_prime(formalism)
      [] here = "k_tilde" -> calculate_k_tilde(formalism)

\* the step at hand fails: an exception is raised inside its try block, or
\* it divides by zero or takes the square root of a negative number, which
\* leaves inf or nan
StepFails ==
    /\ step \in DerivationSteps
    /\ \/ OutcomeAt(step).caught # ""
       \/ OutcomeAt(step).value.cls \in {"inf", "nan"}

\* ------------------------------------------------------------------------
\* C25: when a derivation step fails, the derivation signals an error that
\* names the failing quantity: the construction ends there with that error,
\* no value is assigned for the quantity and no later step runs
\* ------------------------------------------------------------------------
C25_FailureIsSignalled ==
    [][StepFails => /\ step' = "raised"
                    /\ error'.exc # ""
                    /\ error'.quantity = step
                    /\ formalism'.attrs = formalism.attrs]_vars

\* the K-tilde step is over, for a t_min that the t_min step computed
AfterKTilde == step \notin {"idle", "epsilon", "y", "xi", "t_min", "t_prime", "k_tilde"}

\* a quantity under a square root of K-tilde is negative
NegativeRadicand ==
    /\ HasAttribute(formalism, "t_minimum")
    /\ LET radicands == k_tilde_radicands(formalism, formalism.t_minimum)
       IN  \/ radicands.tmin_minus_t.cls = "finite" /\ radicands.tmin_minus_t.v < 0
           \/ radicands.second_root_quantity.cls = "finite" /\ radicands.second_root_quantity.v < 0

\* ------------------------------------------------------------------------
\* C26: when t_min - t or the second radicand of K-tilde is negative, the
\* square root is taken of zero instead: K-tilde is 0, no error is signalled
\* or printed, the construction goes on and K is 0 as well
\* ------------------------------------------------------------------------
C26_NegativeRadicandClamped ==
    (AfterKTilde /\ NegativeRadicand)
    => /\ error = NoError
       /\ \A i \in DOMAIN stdout : ~stdout[i].error
       /\ HasAttribute(formalism, "k_tilde")
       /\ formalism.k_tilde.cls = "finite" /\ formalism.k_tilde.v = 0
       /\ Finished => (HasAttribute(formalism, "kinematic_k")
                       /\ formalism.kinematic_k.cls = "finite" /\ formalism.kinematic_k.v = 0)

\* an evaluation that a coefficient of assembler a needs fails: k.Delta,
\* which the BH contribution needs
NeededEvaluationFails(a) == a.bh_on /\ k_dot_delta_fails(a)

QueryOps == ComputeOps \cup {"compute_prefactor", "get_coefficient"}

\* what the query of the current call returns on instance obj
QueryResult(obj) ==
    CASE call.op = "compute_prefactor" -> compute_prefactor(obj)
      [] call.op = "compute_cross_section" ->
            compute_cross_section(obj, call.phi_values, call.lepton_helicity, call.target_polarization)
      [] call.op = "compute_bsa" -> compute_bsa(obj, call.phi_values, call.target_polarization)
      [] call.op = "compute_tsa" -> compute_tsa(obj, call.phi_values, call.lepton_helicity)
      [] call.op = "compute_dsa" -> compute_dsa(obj, call.phi_values)
      [] call.op = "get_coefficient" -> get_coefficient(obj, call.name)

\* the instance as its construction left it
AsConstructed == Constructed(configuration, dcs.verbose)

\* a query step
QueryStep == call.op = "none" /\ call'.op \in QueryOps

\* after any sequence of queries, and of selections of the backend, the
\* instance is as its construction left it, and a query returns what it
\* returns on the instance right after the construction
SameAsFirst ==
    /\ dcs = AsConstructed.obj
    /\ built = AsConstructed.built
    /\ call.op \in QueryOps => ret = QueryResult(AsConstructed.obj)

\* ------------------------------------------------------------------------
\* C28: the queries are read-only: a step of compute_prefactor,
\* compute_cross_section, compute_bsa, compute_tsa, compute_dsa or
\* get_coefficient leaves the instance (kinematics, CFFs, using_ww, toggles,
\* coefficients), its assemblers, the configuration and the backend selector
\* as they were; so after any sequence of queries a query with equal
\* arguments returns the result it returns right after the construction
\* ------------------------------------------------------------------------
C28_QueriesAreReadOnly ==
    /\ []SameAsFirst
    /\ [][QueryStep => UNCHANGED <<dcs, built, configuration, backend>>]_vars

\* a cross section is returned by an instance that has served earlier calls
\* of the session, the backend having been switched in between
C28_Witness ==
    /\ call.op = "compute_cross_section"
    /\ ~ret.raised
    /\ ret.value.kind = "array"
    /\ backend # DefaultBackend

\* x == y on two floats: false when either side is nan, inf == inf excepted
FloatEqual(x, y) == x # <<0, 0>> /\ x = y

\* asymmetry * (cross section a + cross section b) == a - b at sample i
AgreesWithCrossSections(asymmetry, a, b, i) ==
    FloatEqual(RatMul(asymmetry[i], RatAdd(a[i], b[i])), RatSub(a[i], b[i]))

\* ------------------------------------------------------------------------
\* C29: the asymmetries agree with the cross sections of the same instance
\* at every phi sample:
\*   bsa(phi, Lambda) * (cs(phi, +1, Lambda) + cs(phi, -1, Lambda))
\*       = cs(phi, +1, Lambda) - cs(phi, -1, Lambda),  Lambda in {-0.5, 0, +0.5}
\*   tsa(phi, lambda) * (cs(phi, lambda, +0.5) + cs(phi, lambda, -0.5))
\*       = cs(phi, lambda, +0.5) - cs(phi, lambda, -0.5),  lambda in {-1, 0, +1}
\* ------------------------------------------------------------------------
C29_AsymmetriesAgreeWithCrossSections ==
    /\ (call.op = "compute_bsa" /\ Evaluates /\ call.target_polarization \in LegalPolarizations)
       => /\ ReturnedArray("compute_bsa")
          /\ \A i \in Samples :
                AgreesWithCrossSections(ret.value.elems, CS(1, call.target_polarization),
                                        CS(-1, call.target_polarization), i)
    /\ (call.op = "compute_tsa" /\ Evaluates /\ call.lepton_helicity \in LegalHelicities)
       => /\ ReturnedArray("compute_tsa")
          /\ \A i \in Samples :
                AgreesWithCrossSections(ret.value.elems, CS(call.lepton_helicity, 1),
                                        CS(call.lepton_helicity, -1), i)

\* the keys of a configuration that the claim says the observables depend on
PhysicsKeys == {"kinematics", "cff_inputs", "using_ww"}

\* the configurations a caller may pass that agree with the instance's on
\* kinematics, cff_inputs and using_ww and differ from it in another key
DifferingInOtherKeys ==
    {c \in ConstructorArguments :
        /\ ~c.is_none
        /\ \A key \in PhysicsKeys : c.d[key] = configuration.d[key]
        /\ c.d # configuration.d}

\* the construction of a second instance from configuration c, with the
\* toggles and the verbosity of the first
SecondInstance(c) ==
    initialize_from_config(
        NewInstance(TRUE, dcs.bh_setting, dcs.dvcs_setting, dcs.interference_setting, dcs.verbose), c.d)

\* ------------------------------------------------------------------------
\* C30: the observables depend on the polarization only through the
\* arguments of the call: when an instance was accepted, every configuration
\* that agrees with its configuration on kinematics, cff_inputs and using_ww
\* and differs in other keys (target_polarization, lepton_beam_polarization)
\* is accepted too, under the same toggles, and the second instance returns
\* the same result for every compute_* call
\* ------------------------------------------------------------------------
C30_PolarizationOnlyThroughArguments ==
    (phase = "constructed" /\ dcs.passed_configuration)
    => \A c \in DifferingInOtherKeys :
        /\ ~SecondInstance(c).raised
        /\ call.op \in QueryOps => ret = QueryResult(SecondInstance(c).obj)

\* a polarized cross section was returned by an instance whose configuration
\* carries the two polarization keys with the value 1.0, while configurations
\* without them and with 0.0 exist
C30_Witness ==
    /\ ReturnedArray("compute_cross_section")
    /\ call.lepton_helicity = -1 /\ call.target_polarization = 1
    /\ configuration.d["lepton_beam_polarization"] = Entry(PyFloat(1))
    /\ Cardinality(DifferingInOtherKeys) = 2
    /\ ret.value.elems # compute_cross_section(dcs, call.phi_values, 1, 1).value.elems

====
